---- MODULE Spec2Model ----
(***************************************************************************)
(* A model of the thought-weaver constellation: the lexical similarity,    *)
(* prevalence, connection, merge and density pipeline and the view state   *)
(* of ThoughtConstellation (src/unnamed/part_003), and the layout engine   *)
(* of the server (src/server/src/utils/aiOrganizer.ts) and its narrative   *)
(* and embedding service (src/server/src/utils/geminiService.ts).          *)
(*                                                                         *)
(* Texts are sequences of one-character strings.  Real numbers are kept    *)
(* exactly as rationals where the code compares them (similarity) and in   *)
(* fixed point elsewhere: prevalence in 1/1000, radii in 1/80 pixel.       *)
(***************************************************************************)
EXTENDS Integers, Sequences, FiniteSets, TLC

VARIABLES
  textA, textB, applied,          \* text functions applied to a pair of texts
  thoughts, mergeThreshold,       \* props and state of ThoughtConstellation
  nodes,
  stage,                          \* how far the recomputation effect has run
  previous,                       \* the result the effect replaced, for comparison
  request, response,              \* a call of POST /thoughts/organize
  isOrganized, isOrganizing,      \* the layout flags of the view
  clusters, strongConnections,    \* the layout result the view keeps
  hiddenBubbles,                  \* the ids of the hidden bubbles
  aiQuestions,                    \* the path questions
  isGroupingMode, selectedNodes,  \* manual grouping: the ids selected, in order
  manualGroups,                   \* the groups created by hand
  inFlight,                       \* the organize request awaiting its response
  now,                            \* Date.now(), counted in group creations
  spent,                          \* the events handled so far
  apiKey,                         \* process.env.GEMINI_API_KEY is set
  contentReply, synthesisResult,  \* a call of generateGeminiSynthesis
  embedThoughts, embedReplies,    \* a call of getThoughtEmbeddings
  embeddingsResult,
  consoleErrors,                  \* the console.error calls of the view so far
  documents, nextDocumentId,      \* the documents collection and its next _id
  served,                         \* the request of /api/documents answered last
  listing                         \* the GET /api/documents requests being handled

textVars == <<textA, textB, applied>>
viewVars == <<thoughts, mergeThreshold, nodes>>
pipeVars == <<stage, previous>>
layoutVars == <<request, response>>
uiVars == <<isOrganized, isOrganizing, clusters, strongConnections, hiddenBubbles,
           aiQuestions, isGroupingMode, selectedNodes, manualGroups, inFlight, now, spent>>
serviceVars == <<apiKey, contentReply, synthesisResult, embedThoughts, embedReplies,
                embeddingsResult>>
logVars == <<consoleErrors>>
docVars == <<documents, nextDocumentId, served, listing>>
vars == <<textVars, viewVars, pipeVars, layoutVars, uiVars, serviceVars, logVars, docVars>>

(***************************************************************************)
(* Text primitives                                                         *)
(***************************************************************************)
UpperCaseLetters ==
  <<"A", "B", "C", "D", "E", "F", "G", "H", "I", "J", "K", "L", "M", "N", "O", "P", "Q", "R", "S", "T", "U", "V", "W", "X", "Y", "Z">>

LowerCaseLetters ==
  <<"a", "b", "c", "d", "e", "f", "g", "h", "i", "j", "k", "l", "m", "n", "o", "p", "q", "r", "s", "t", "u", "v", "w", "x", "y", "z">>

\* String.prototype.toLowerCase on one character
toLowerCaseChar(c) ==
  IF \E i \in 1..26 : UpperCaseLetters[i] = c
    THEN LowerCaseLetters[CHOOSE i \in 1..26 : UpperCaseLetters[i] = c]
    ELSE c

toLowerCase(s) == [i \in 1..Len(s) |-> toLowerCaseChar(s[i])]

\* the characters the regular expression \s matches
IsWhitespace(c) == c \in {" ", "\t", "\n"}

\* s.split(/\s+/): the pieces between maximal whitespace runs, the empty
\* pieces before a leading run and after a trailing run included
RECURSIVE SplitFrom(_, _, _)
SplitFrom(s, i, cur) ==
  IF i > Len(s) THEN <<cur>>
  ELSE IF IsWhitespace(s[i])
    THEN IF i > 1 /\ IsWhitespace(s[i - 1])
           THEN SplitFrom(s, i + 1, cur)
           ELSE <<cur>> \o SplitFrom(s, i + 1, <<>>)
    ELSE SplitFrom(s, i + 1, Append(cur, s[i]))

splitWhitespace(s) == SplitFrom(s, 1, <<>>)

\* the thoughts the recomputation effect is run on
\* the example of the specification's testable properties
ExampleCatalog ==
  "h1" :> <<"I", " ", "l", "o", "v", "e", " ", "h", "i", "k", "i", "n", "g", " ", "m", "o", "u", "n", "t", "a", "i", "n", "s">>
  @@ "h2" :> <<"I", " ", "l", "o", "v", "e", " ", "h", "i", "k", "i", "n", "g", " ", "t", "r", "a", "i", "l", "s">>
  @@ "h3" :> <<"T", "a", "x", " ", "s", "e", "a", "s", "o", "n", " ", "i", "s", " ", "s", "t", "r", "e", "s", "s", "f", "u", "l">>

\* thoughts of one-letter words, and one without text
LetterCatalog ==
  "a" :> <<"p", " ", "r", " ", "u", " ", "v">>
  @@ "b" :> <<"p", " ", "q", " ", "r", " ", "s">>
  @@ "c" :> <<"p", " ", "q">>
  @@ "d" :> <<"r", " ", "s">>
  @@ "e" :> <<>>

\* two pairs of thoughts: the thoughts of a pair share two of three words,
\* the pairs share none
PairCatalog ==
  "m1" :> <<"x", " ", "y", " ", "z">>
  @@ "m2" :> <<"x", " ", "y">>
  @@ "w1" :> <<"f", " ", "g", " ", "h">>
  @@ "w2" :> <<"f", " ", "g">>

Catalogs == {ExampleCatalog, LetterCatalog, PairCatalog}

\* four thoughts that share three of their seven words, and one that shares
\* none
HubCatalog ==
  "k1" :> <<"s", "u", "n", " ", "s", "k", "y", " ", "s", "e", "a", " ", "a", " ", "b", " ", "c", " ", "d">>
  @@ "k2" :> <<"s", "u", "n", " ", "s", "k", "y", " ", "s", "e", "a", " ", "e", " ", "f", " ", "g", " ", "h">>
  @@ "k3" :> <<"s", "u", "n", " ", "s", "k", "y", " ", "s", "e", "a", " ", "i", " ", "j", " ", "k", " ", "l">>
  @@ "k4" :> <<"s", "u", "n", " ", "s", "k", "y", " ", "s", "e", "a", " ", "m", " ", "n", " ", "o", " ", "p">>
  @@ "k5" :> <<"z">>

\* six thoughts that share no word
ScatterCatalog ==
  "s1" :> <<"1">> @@ "s2" :> <<"2">> @@ "s3" :> <<"3">>
  @@ "s4" :> <<"4">> @@ "s5" :> <<"5">> @@ "s6" :> <<"6">>

\* the thoughts of a catalogue in the order of the ids given
ListOf(catalog, ids) == [k \in 1..Len(ids) |-> [id |-> ids[k], text |-> catalog[ids[k]]]]

LongLists ==
  {ListOf(HubCatalog, <<"k1", "k2", "k3", "k4", "k5">>),
   ListOf(ScatterCatalog, <<"s1", "s2", "s3", "s4", "s5", "s6">>)}

KnownTexts ==
  UNION {{catalog[id] : id \in DOMAIN catalog} :
           catalog \in Catalogs \cup {HubCatalog, ScatterCatalog}}

\* text.toLowerCase().split(/\s+/)
lowerCaseWords(text) == splitWhitespace(toLowerCase(text))

\* lowerCaseWords, computed once for the texts of the catalogue
TokenTable == [text \in KnownTexts |-> lowerCaseWords(text)]

Tokens(text) ==
  IF text \in DOMAIN TokenTable THEN TokenTable[text] ELSE lowerCaseWords(text)

SeqToSet(q) == {q[i] : i \in 1..Len(q)}

RECURSIVE SumSeq(_)
SumSeq(q) == IF q = <<>> THEN 0 ELSE Head(q) + SumSeq(Tail(q))

Max(a, b) == IF a >= b THEN a ELSE b

Min(a, b) == IF a <= b THEN a ELSE b

stopWords ==
  {
    <<"t", "h", "e">>, <<"a">>, <<"a", "n">>, <<"a", "n", "d">>,
    <<"o", "r">>, <<"b", "u", "t">>, <<"i", "n">>, <<"o", "n">>,
    <<"a", "t">>, <<"t", "o">>, <<"f", "o", "r">>, <<"o", "f">>,
    <<"i", "s">>, <<"a", "r", "e">>, <<"w", "a", "s">>, <<"w", "e", "r", "e">>,
    <<"b", "e">>, <<"b", "e", "e", "n">>, <<"b", "e", "i", "n", "g">>, <<"h", "a", "v", "e">>,
    <<"h", "a", "s">>, <<"h", "a", "d">>, <<"d", "o">>, <<"d", "o", "e", "s">>,
    <<"d", "i", "d">>, <<"w", "i", "l", "l">>, <<"w", "o", "u", "l", "d">>, <<"s", "h", "o", "u", "l", "d">>,
    <<"c", "o", "u", "l", "d">>, <<"m", "a", "y">>, <<"m", "i", "g", "h", "t">>, <<"c", "a", "n">>,
    <<"t", "h", "i", "s">>, <<"t", "h", "a", "t">>, <<"t", "h", "e", "s", "e">>, <<"t", "h", "o", "s", "e">>,
    <<"i">>, <<"y", "o", "u">>, <<"h", "e">>, <<"s", "h", "e">>,
    <<"i", "t">>, <<"w", "e">>, <<"t", "h", "e", "y">>
  }

(***************************************************************************)
(* calculateSimilarity: a rational [num, den], den > 0                     *)
(***************************************************************************)
Zero == [num |-> 0, den |-> 1]

\* a variant that divides by the size of the first token set
calculateSimilarityOverFirst(text1, text2) ==
  IF text1 = <<>> \/ text2 = <<>> THEN Zero
  ELSE LET set1 == SeqToSet(Tokens(text1))
           set2 == SeqToSet(Tokens(text2))
       IN [num |-> Cardinality(set1 \cap set2), den |-> Cardinality(set1)]

calculateSimilarity(text1, text2) ==
  IF text1 = <<>> \/ text2 = <<>> THEN Zero
  ELSE LET set1 == SeqToSet(Tokens(text1))
           set2 == SeqToSet(Tokens(text2))
           intersection == {x \in set1 : x \in set2}
           union == set1 \cup set2
       IN IF Cardinality(union) = 0 THEN Zero
          ELSE [num |-> Cardinality(intersection), den |-> Cardinality(union)]

\* calculateSimilarity, computed once for the texts of the catalogue
SimilarityTable ==
  [pair \in KnownTexts \X KnownTexts |-> calculateSimilarity(pair[1], pair[2])]

Similarity(text1, text2) ==
  IF <<text1, text2>> \in DOMAIN SimilarityTable
    THEN SimilarityTable[<<text1, text2>>]
    ELSE calculateSimilarity(text1, text2)

\* a variant that takes a similarity equal to the threshold too
ReachesPercent(sim, percent) == sim.num * 100 >= percent * sim.den

\* similarity > threshold, the threshold given in hundredths
ExceedsPercent(sim, percent) == sim.num * 100 > percent * sim.den

(***************************************************************************)
(* wordFrequency and calculatePrevalence                                   *)
(***************************************************************************)
\* the words one thought contributes to wordFrequency
FrequencyWords(text) ==
  IF text = <<>> THEN <<>>
  ELSE SelectSeq(Tokens(text), LAMBDA w : Len(w) > 2 /\ w \notin stopWords)

CountIn(w, q) == Cardinality({i \in 1..Len(q) : q[i] = w})

\* the word -> count record over the texts of a batch of thoughts
wordFrequency(ths) ==
  LET words(k) == FrequencyWords(ths[k].text)
      dom == UNION {SeqToSet(words(k)) : k \in 1..Len(ths)}
  IN [w \in dom |-> SumSeq([k \in 1..Len(ths) |-> CountIn(w, words(k))])]

\* Math.log(n) in thousandths, rounded
LnMilli(n) ==
  CASE n = 1 -> 0     [] n = 2 -> 693   [] n = 3 -> 1099  [] n = 4 -> 1386
    [] n = 5 -> 1609  [] n = 6 -> 1792  [] n = 7 -> 1946  [] n = 8 -> 2079
    [] n = 9 -> 2197  [] n = 10 -> 2303 [] n = 11 -> 2398 [] n = 12 -> 2485
    [] n = 13 -> 2565 [] n = 14 -> 2639 [] n = 15 -> 2708 [] n = 16 -> 2773

\* the prevalence of a text in thousandths
calculatePrevalence(text, wf) ==
  IF text = <<>> THEN 0
  ELSE LET words == SelectSeq(Tokens(text), LAMBDA w : Len(w) > 2)
           freq(w) == IF w \in DOMAIN wf /\ wf[w] # 0 THEN wf[w] ELSE 1
           score == SumSeq([i \in 1..Len(words) |-> LnMilli(freq(words[i]) + 1)])
       IN score \div Max(Len(words), 1)

\* no response sent yet
NotServed == [served |-> FALSE]

\* no call of the service has been made
NotCalled == [called |-> FALSE]

\* no request of /api/documents answered yet
NotAnswered == [answered |-> FALSE]

\* the documents collection empty and no request at hand
NoDocuments ==
  /\ documents = <<>> /\ nextDocumentId = 1
  /\ served = NotAnswered /\ listing = <<>>

ServiceIdle ==
  /\ apiKey = FALSE
  /\ contentReply = NotCalled /\ synthesisResult = NotCalled
  /\ embedThoughts = <<>> /\ embedReplies = <<>> /\ embeddingsResult = NotCalled

\* the useState defaults of ThoughtConstellation other than nodes and
\* mergeThreshold
UseStateDefaults ==
  /\ isOrganized = FALSE /\ isOrganizing = FALSE
  /\ clusters = <<>> /\ strongConnections = <<>>
  /\ hiddenBubbles = {}
  /\ aiQuestions = <<>>
  /\ isGroupingMode = FALSE /\ selectedNodes = <<>>
  /\ manualGroups = <<>>
  /\ inFlight = <<>>
  /\ now = 0
  /\ spent = 0

(***************************************************************************)
(* The text functions applied to a pair of texts                           *)
(***************************************************************************)
MaxTextLen == 3

TextAlphabet == {"d", "i", "D", " "}

Texts == UNION {[1..n -> TextAlphabet] : n \in 0..MaxTextLen}

NotApplied == [op |-> "none"]

TextInit ==
  /\ textA \in Texts
  /\ textB \in Texts
  /\ applied = NotApplied
  /\ thoughts = <<>> /\ mergeThreshold = 20 /\ nodes = <<>>
  /\ stage = "none" /\ previous = [threshold |-> 0, count |-> 0, first |-> {}]
  /\ request = <<>> /\ response = NotServed
  /\ UseStateDefaults
  /\ ServiceIdle
  /\ consoleErrors = 0
  /\ NoDocuments

ApplySimilarity ==
  /\ applied.op = "none"
  /\ applied' = [op |-> "similarity",
                 ab |-> calculateSimilarity(textA, textB),
                 ba |-> calculateSimilarity(textB, textA),
                 aa |-> calculateSimilarity(textA, textA)]
  /\ UNCHANGED <<textA, textB>>

\* the prevalence of textA in the batch <<textA, textB>>
ApplyPrevalence ==
  /\ applied.op = "none"
  /\ LET batch == <<[id |-> "a", text |-> textA], [id |-> "b", text |-> textB]>>
     IN applied' = [op |-> "prevalence",
                    frequency |-> wordFrequency(batch),
                    value |-> calculatePrevalence(textA, wordFrequency(batch))]
  /\ UNCHANGED <<textA, textB>>

TextNext ==
  \/ ApplySimilarity /\ UNCHANGED <<viewVars, pipeVars, layoutVars, serviceVars, uiVars, logVars, docVars>>
  \/ ApplyPrevalence /\ UNCHANGED <<viewVars, pipeVars, layoutVars, serviceVars, uiVars, logVars, docVars>>

(***************************************************************************)
(* The recomputation effect of ThoughtConstellation                        *)
(***************************************************************************)
\* Math.random() * 2400, Math.random() * 1600 for the k-th node: one of a
\* few placements of the whole node list
RandomLayouts == {"near", "far", "same"}

\* positions are in 1/4 pixel
RandomPosition(layout, k) ==
  CASE layout = "near" -> <<4 * (300 + 100 * k), 4 * 300>>
    [] layout = "far" -> <<4 * 450 * k, 4 * 300 * k>>
    [] layout = "same" -> <<4 * 1200, 4 * 800>>

\* the radius with the smaller constants 65, 130 and 19.5
PlainRadiusSmaller(prevalence) ==
  20 * Max(260, Min(520, 260 + (prevalence * 78) \div 1000))

\* radii are in 1/80 pixel and base radii are multiples of 1/4 pixel
\* Math.max(97.5, Math.min(195, 97.5 + prevalence * 29.25))
PlainRadius(prevalence) ==
  20 * Max(390, Min(780, 390 + (prevalence * 117) \div 1000))

\* Math.max(156, Math.min(292.5, 156 + totalPrevalence * 39))
MergedRadius(totalPrevalence) ==
  20 * Max(624, Min(1170, 624 + (totalPrevalence * 156) \div 1000))

initialNodes(ths, wf, layout) ==
  [k \in 1..Len(ths) |->
    LET prevalence == calculatePrevalence(ths[k].text, wf)
    IN [id |-> ths[k].id,
        text |-> ths[k].text,
        x |-> RandomPosition(layout, k)[1],
        y |-> RandomPosition(layout, k)[2],
        hasTarget |-> FALSE, targetX |-> 0, targetY |-> 0,
        radius |-> PlainRadius(prevalence),
        connections |-> <<>>,
        prevalence |-> prevalence,
        mergedIds |-> <<>>,
        isMerged |-> FALSE,
        baseRadius |-> 0,
        touchCount |-> 0]]

HasThought(ths, id) == \E k \in 1..Len(ths) : ths[k].id = id

\* thoughts.find(t => t.id === id)
FindThought(ths, id) ==
  ths[CHOOSE k \in 1..Len(ths) :
        ths[k].id = id /\ \A j \in 1..(k - 1) : ths[j].id # id]

\* a variant that connects at similarity 0.2 too
ConnectsToAtLeast(thought, other) ==
  /\ thought.id # other.id
  /\ LET sim == Similarity(thought.text, other.text)
     IN sim.num * 100 >= 20 * sim.den

\* the connection threshold 0.2 in hundredths
ConnectsTo(thought, other) ==
  /\ thought.id # other.id
  /\ ExceedsPercent(Similarity(thought.text, other.text), 20)

findConnections(ns, ths) ==
  [k \in 1..Len(ns) |->
    LET thought == FindThought(ths, ns[k].id)
        linked == SelectSeq(ths, LAMBDA other : ConnectsTo(thought, other))
    IN [ns[k] EXCEPT !.connections = @ \o [j \in 1..Len(linked) |-> linked[j].id]]]

RECURSIVE JoinTexts(_)
\* texts.join(' <bullet> '), the bullet U+2022 written "*"
JoinTexts(texts) ==
  IF texts = <<>> THEN <<>>
  ELSE IF Len(texts) = 1 THEN texts[1]
  ELSE texts[1] \o <<" ", "*", " ">> \o JoinTexts(Tail(texts))

RECURSIVE AddAll(_, _, _)
\* the insertion order of a Set after adding the elements of q not in skip
AddAll(acc, q, skip) ==
  IF q = <<>> THEN acc
  ELSE IF Head(q) \in skip \/ Head(q) \in SeqToSet(acc)
    THEN AddAll(acc, Tail(q), skip)
    ELSE AddAll(Append(acc, Head(q)), Tail(q), skip)

RECURSIVE CombineConnectionsWithSiblings(_, _, _)
\* a variant that keeps the connections to the members of the group
CombineConnectionsWithSiblings(acc, group, mergedIds) ==
  IF group = <<>> THEN acc
  ELSE CombineConnectionsWithSiblings(AddAll(acc, Head(group).connections, {}),
                                      Tail(group), mergedIds)

RECURSIVE CombineConnections(_, _, _)
CombineConnections(acc, group, mergedIds) ==
  IF group = <<>> THEN acc
  ELSE CombineConnections(AddAll(acc, Head(group).connections, SeqToSet(mergedIds)),
                          Tail(group), mergedIds)

\* a variant that takes processed nodes again
stronglyConnectedAgain(ns, ths, threshold, node, processedIds) ==
  SelectSeq(ns, LAMBDA other :
    /\ other.id # node.id
    /\ HasThought(ths, node.id)
    /\ HasThought(ths, other.id)
    /\ ExceedsPercent(Similarity(FindThought(ths, node.id).text,
                                FindThought(ths, other.id).text),
                      threshold))

\* the not yet processed nodes a node is merged with
stronglyConnected(ns, ths, threshold, node, processedIds) ==
  SelectSeq(ns, LAMBDA other :
    /\ other.id # node.id
    /\ other.id \notin processedIds
    /\ HasThought(ths, node.id)
    /\ HasThought(ths, other.id)
    /\ ExceedsPercent(Similarity(FindThought(ths, node.id).text,
                                FindThought(ths, other.id).text),
                      threshold))

mergedNode(node, mergeGroup) ==
  LET texts == [k \in 1..Len(mergeGroup) |-> mergeGroup[k].text]
      allTexts == SelectSeq(texts, LAMBDA t : t # <<>>)
      mergedIds == [k \in 1..Len(mergeGroup) |-> mergeGroup[k].id]
      totalPrevalence == SumSeq([k \in 1..Len(mergeGroup) |-> mergeGroup[k].prevalence])
      avgPrevalence == totalPrevalence \div Len(mergeGroup)
  IN [node EXCEPT !.radius = MergedRadius(totalPrevalence),
                  !.prevalence = avgPrevalence,
                  !.mergedIds = mergedIds,
                  !.isMerged = TRUE,
                  !.connections = CombineConnections(<<>>, mergeGroup, mergedIds),
                  !.text = JoinTexts(allTexts)]

RECURSIVE MergeFrom(_, _, _, _, _, _)
MergeFrom(ns, ths, threshold, i, merged, processedIds) ==
  IF i > Len(ns) THEN merged
  ELSE IF ns[i].id \in processedIds
    THEN MergeFrom(ns, ths, threshold, i + 1, merged, processedIds)
  ELSE LET node == ns[i]
           strongly == stronglyConnected(ns, ths, threshold, node, processedIds)
           mergeGroup == <<node>> \o strongly
       IN IF Len(strongly) > 0
            THEN MergeFrom(ns, ths, threshold, i + 1,
                           Append(merged, mergedNode(node, mergeGroup)),
                           processedIds \cup {mergeGroup[k].id : k \in 1..Len(mergeGroup)})
            ELSE MergeFrom(ns, ths, threshold, i + 1,
                           Append(merged, node), processedIds \cup {node.id})

\* a variant that merges with the threshold turned round
mergeOverlappingThoughtsInverted(ns, ths, threshold) ==
  MergeFrom(ns, ths, 50 - threshold, 1, <<>>, {})

mergeOverlappingThoughts(ns, ths, threshold) ==
  MergeFrom(ns, ths, threshold, 1, <<>>, {})

\* node.baseRadius || node.radius
BaseRadiusOf(node) == IF node.baseRadius # 0 THEN node.baseRadius ELSE node.radius

\* a variant that measures touch with the scaled radii
TouchingScaled(node, other, baseRadius) ==
  LET dx == node.x - other.x
      dy == node.y - other.y
      sumOfRadii == (node.radius + other.radius) \div 20
  IN dx * dx + dy * dy < sumOfRadii * sumOfRadii

\* distance < sumOfRadii, the centres in 1/4 pixel and the radii in 1/80 pixel
Touching(node, other, baseRadius) ==
  LET dx == node.x - other.x
      dy == node.y - other.y
      sumOfRadii == (baseRadius + BaseRadiusOf(other)) \div 20
  IN dx * dx + dy * dy < sumOfRadii * sumOfRadii

TouchCountOf(ns, node, baseRadius) ==
  Cardinality({j \in 1..Len(ns) : ns[j].id # node.id /\ Touching(node, ns[j], baseRadius)})

\* baseRadius * (1 + touchCount * 0.25)
applyDensityBasedSizing(ns) ==
  [k \in 1..Len(ns) |->
    LET baseRadius == BaseRadiusOf(ns[k])
        touchCount == TouchCountOf(ns, ns[k], baseRadius)
    IN [ns[k] EXCEPT !.baseRadius = baseRadius,
                     !.touchCount = touchCount,
                     !.radius = (baseRadius * (4 + touchCount)) \div 4]]

\* the whole effect: the node set handed to setNodes
densityScaledNodes(ths, threshold, layout) ==
  applyDensityBasedSizing(
    mergeOverlappingThoughts(
      findConnections(initialNodes(ths, wordFrequency(ths), layout), ths),
      ths, threshold))

(***************************************************************************)
(* The effect step by step, on thought lists drawn from a catalogue        *)
(***************************************************************************)
MaxThoughts == 4

\* the values of the Bubble Count select, in hundredths
MergeThresholds == {40, 30, 20, 15, 10}

RECURSIVE DistinctSeqs(_, _)
\* the sequences of at most n distinct elements of S
DistinctSeqs(S, n) ==
  IF n = 0 THEN {<<>>}
  ELSE {<<>>} \cup {<<x>> \o q : x \in S, q \in DistinctSeqs(S, n - 1)}

ThoughtLists(catalog, n) ==
  {[k \in 1..Len(ids) |-> [id |-> ids[k], text |-> catalog[ids[k]]]] :
     ids \in {q \in DistinctSeqs(DOMAIN catalog, n) :
                \A i, j \in 1..Len(q) : i # j => q[i] # q[j]}}

\* the thought ids a node stands for
MemberIds(node) ==
  IF node.mergedIds # <<>> THEN SeqToSet(node.mergedIds) ELSE {node.id}

Summary(threshold, ns) ==
  [threshold |-> threshold,
   count |-> Len(ns),
   first |-> IF ns = <<>> THEN {} ELSE MemberIds(ns[1])]

NoPrevious == Summary(0, <<>>)

PipelineInit ==
  /\ thoughts \in UNION {ThoughtLists(catalog, MaxThoughts) : catalog \in Catalogs}
                   \cup LongLists
  /\ mergeThreshold = 20
  /\ nodes = <<>>
  /\ stage = "start"
  /\ previous = NoPrevious
  /\ textA = <<>> /\ textB = <<>> /\ applied = NotApplied
  /\ request = <<>> /\ response = NotServed
  /\ UseStateDefaults
  /\ ServiceIdle
  /\ consoleErrors = 0
  /\ NoDocuments

StepInitialNodes ==
  /\ stage = "start"
  /\ \E layout \in RandomLayouts :
       nodes' = initialNodes(thoughts, wordFrequency(thoughts), layout)
  /\ stage' = "initial"
  /\ UNCHANGED <<thoughts, mergeThreshold, previous>>

StepFindConnections ==
  /\ stage = "initial"
  /\ nodes' = findConnections(nodes, thoughts)
  /\ stage' = "connected"
  /\ UNCHANGED <<thoughts, mergeThreshold, previous>>

StepMerge ==
  /\ stage = "connected"
  /\ nodes' = mergeOverlappingThoughts(nodes, thoughts, mergeThreshold)
  /\ stage' = "merged"
  /\ UNCHANGED <<thoughts, mergeThreshold, previous>>

StepDensity ==
  /\ stage = "merged"
  /\ nodes' = applyDensityBasedSizing(nodes)
  /\ stage' = "scaled"
  /\ UNCHANGED <<thoughts, mergeThreshold, previous>>

\* the select changes the threshold and the effect runs again
StepSetMergeThreshold ==
  /\ stage \in {"scaled", "asked"}
  /\ \E t \in MergeThresholds \ {mergeThreshold}, layout \in RandomLayouts :
       /\ mergeThreshold' = t
       /\ nodes' = densityScaledNodes(thoughts, t, layout)
  /\ previous' = Summary(mergeThreshold, nodes)
  /\ stage' = "scaled"
  /\ UNCHANGED thoughts

TextSpec == TextInit /\ [][TextNext]_vars



(***************************************************************************)
(* The layout engine: organizeThoughtsWithAI (aiOrganizer.ts)              *)
(*                                                                         *)
(* A thought of the request is [id, text, connections, prevalence].        *)
(* Positions are in 1/4 pixel.  Math.random() is one of 0, 1/4, 1/2, 3/4,  *)
(* so a random angle has sine and cosine in {-1, 0, 1}; the draws of one   *)
(* call are fixed by a seed.                                               *)
(***************************************************************************)
canvasWidth == 4 * 2400

canvasHeight == 4 * 1600

padding == 4 * 120

Seeds == 0..19

\* the random angle (in quarter turns) and the random fraction of the
\* distance band (in quarters) drawn for the k-th placed thought; the seeds
\* from 16 on draw the same angle and the fraction 3/4 every time
RandomAngle(seed, k) == IF seed < 16 THEN (seed + k) % 4 ELSE seed % 4

RandomFraction(seed, k) == IF seed < 16 THEN ((seed \div 4) + k) % 4 ELSE 3

QuarterCos(q) == CASE q = 0 -> 1 [] q = 1 -> 0 [] q = 2 -> -1 [] q = 3 -> 0

QuarterSin(q) == CASE q = 0 -> 0 [] q = 1 -> 1 [] q = 2 -> 0 [] q = 3 -> -1

\* Math.cos and Math.sin of (k / n) * 2 * PI in thousandths, n <= 8
RingCosMilli ==
  <<<<1000>>,
    <<1000, -1000>>,
    <<1000, -500, -500>>,
    <<1000, 0, -1000, 0>>,
    <<1000, 309, -809, -809, 309>>,
    <<1000, 500, -500, -1000, -500, 500>>,
    <<1000, 623, -223, -901, -901, -223, 623>>,
    <<1000, 707, 0, -707, -1000, -707, 0, 707>>>>

RingSinMilli ==
  <<<<0>>,
    <<0, 0>>,
    <<0, 866, -866>>,
    <<0, 1000, 0, -1000>>,
    <<0, 951, 588, -588, -951>>,
    <<0, 866, 866, 0, -866, -866>>,
    <<0, 782, 975, 434, -434, -975, -782>>,
    <<0, 707, 1000, 707, 0, -707, -1000, -707>>>>

RECURSIVE InsertByPrevalenceAscending(_, _)
\* the insertion of a sort by a.prevalence - b.prevalence
InsertByPrevalenceAscending(sorted, t) ==
  IF sorted = <<>> THEN <<t>>
  ELSE IF Head(sorted).prevalence <= t.prevalence
    THEN <<Head(sorted)>> \o InsertByPrevalenceAscending(Tail(sorted), t)
    ELSE <<t>> \o sorted

\* [...clusterThoughts].sort((a, b) => b.prevalence - a.prevalence): stable
RECURSIVE InsertByPrevalence(_, _)
InsertByPrevalence(sorted, t) ==
  IF sorted = <<>> THEN <<t>>
  ELSE IF Head(sorted).prevalence >= t.prevalence
    THEN <<Head(sorted)>> \o InsertByPrevalence(Tail(sorted), t)
    ELSE <<t>> \o sorted

RECURSIVE SortByPrevalence(_)
SortByPrevalence(q) ==
  IF q = <<>> THEN <<>>
  ELSE InsertByPrevalence(SortByPrevalence(SubSeq(q, 1, Len(q) - 1)), q[Len(q)])

RECURSIVE Traverse(_, _, _, _)
\* the while loop of identifyClusters: [visited, cluster] when the queue is empty
Traverse(ths, queue, visited, cluster) ==
  IF queue = <<>> THEN [visited |-> visited, cluster |-> cluster]
  ELSE LET currentId == Head(queue)
       IN IF currentId \in visited
            THEN Traverse(ths, Tail(queue), visited, cluster)
            ELSE LET seen == visited \cup {currentId}
                     pushed == IF HasThought(ths, currentId)
                                 THEN SelectSeq(FindThought(ths, currentId).connections,
                                                LAMBDA connId : connId \notin seen)
                                 ELSE <<>>
                 IN Traverse(ths, Tail(queue) \o pushed, seen, Append(cluster, currentId))

DigitChars == <<"1", "2", "3", "4", "5", "6", "7", "8", "9">>

\* mostPrevalent?.text?.substring(0, 20) || `Cluster ${clusters.length + 1}`
ClusterName(ths, cluster, count) ==
  LET clusterThoughts == SelectSeq(ths, LAMBDA t : t.id \in SeqToSet(cluster))
      mostPrevalent == SortByPrevalence(clusterThoughts)[1]
  IN IF clusterThoughts # <<>> /\ mostPrevalent.text # <<>>
       THEN SubSeq(mostPrevalent.text, 1, Min(20, Len(mostPrevalent.text)))
       ELSE <<"C", "l", "u", "s", "t", "e", "r", " ", DigitChars[count + 1]>>

RECURSIVE IdentifyFrom(_, _, _, _)
IdentifyFrom(ths, i, visited, found_clusters) ==
  IF i > Len(ths) THEN found_clusters
  ELSE IF ths[i].id \in visited THEN IdentifyFrom(ths, i + 1, visited, found_clusters)
  ELSE LET found == Traverse(ths, <<ths[i].id>>, visited, <<>>)
       IN IdentifyFrom(ths, i + 1, found.visited,
            Append(found_clusters, [name |-> ClusterName(ths, found.cluster, Len(found_clusters)),
                              thoughtIds |-> found.cluster,
                              centerX |-> 0, centerY |-> 0]))

identifyClusters(ths) == IdentifyFrom(ths, 1, {}, <<>>)

\* the coordinate as it would be without the clamp
ClampNever(clamped, limit, v) == v

\* Math.max(padding, Math.min(limit - padding, v)) where the strategy clamps
Clamp(clamped, limit, v) ==
  IF clamped THEN Max(padding, Min(limit - padding, v)) ELSE v

\* the distance bands of a strategy, in 1/4 pixel: near placed neighbours
\* nearMin + random * nearRange, on the ring ringMin + random * ringRange
Bands(nearMin, nearRange, ringMin, ringRange, clamped) ==
  [nearMin |-> nearMin, nearRange |-> nearRange,
   ringMin |-> ringMin, ringRange |-> ringRange, clamped |-> clamped]

RECURSIVE PlaceRest(_, _, _, _, _, _, _, _)
\* sorted.slice(1).forEach: the thoughts of one cluster after its first
PlaceRest(sorted, k, count, positions, placed, center, bands, seed) ==
  IF k > Len(sorted) THEN positions
  ELSE
    LET thought == sorted[k]
        connectedPlaced == SelectSeq(thought.connections, LAMBDA id : id \in placed)
        n == Len(connectedPlaced)
        avgX == SumSeq([j \in 1..n |-> positions[connectedPlaced[j]][1]]) \div Max(n, 1)
        avgY == SumSeq([j \in 1..n |-> positions[connectedPlaced[j]][2]]) \div Max(n, 1)
        fraction == RandomFraction(seed, k)
        quarter == RandomAngle(seed, k)
        distance == bands.nearMin + (fraction * bands.nearRange) \div 4
        radius == bands.ringMin + (fraction * bands.ringRange) \div 4
        ring == Cardinality(placed)
        at == IF n > 0
                THEN <<Clamp(bands.clamped, canvasWidth, avgX + QuarterCos(quarter) * distance),
                       Clamp(bands.clamped, canvasHeight, avgY + QuarterSin(quarter) * distance)>>
                ELSE <<Clamp(bands.clamped, canvasWidth,
                             center[1] + (RingCosMilli[count][ring + 1] * radius) \div 1000),
                       Clamp(bands.clamped, canvasHeight,
                             center[2] + (RingSinMilli[count][ring + 1] * radius) \div 1000)>>
    IN PlaceRest(sorted, k + 1, count,
                 [id \in DOMAIN positions \cup {thought.id} |->
                    IF id = thought.id THEN at ELSE positions[id]],
                 placed \cup {thought.id}, center, bands, seed)

\* the body the four position* functions share: the most prevalent thought
\* of the cluster at the centre, the others around it
PlaceCluster(ths, cluster, positions, center, bands, seed) ==
  LET clusterThoughts == SelectSeq(ths, LAMBDA t : t.id \in SeqToSet(cluster.thoughtIds))
      sorted == SortByPrevalence(clusterThoughts)
  IN IF sorted = <<>> THEN positions
     ELSE PlaceRest(sorted, 2, Len(clusterThoughts),
                    [id \in DOMAIN positions \cup {sorted[1].id} |->
                       IF id = sorted[1].id THEN center ELSE positions[id]],
                    {sorted[1].id}, center, bands, seed)

\* Math.ceil(Math.sqrt(n)) and Math.ceil(n / cols)
CeilSqrt(n) == CHOOSE c \in 0..n : c * c >= n /\ (c = 0 \/ (c - 1) * (c - 1) < n)

CeilDiv(n, d) == (n + d - 1) \div d

\* the anchor of the idx-th cluster (from 0) among count clusters
Anchor(count, idx) ==
  IF count = 1 THEN <<canvasWidth \div 2, canvasHeight \div 2>>
  ELSE IF count = 2
    THEN <<IF idx = 0 THEN canvasWidth \div 4 ELSE (canvasWidth * 3) \div 4, canvasHeight \div 2>>
  ELSE IF count <= 4
    THEN <<IF idx % 2 = 0 THEN (canvasWidth * 3) \div 10 ELSE (canvasWidth * 7) \div 10,
           IF idx < 2 THEN (canvasHeight * 3) \div 10 ELSE (canvasHeight * 7) \div 10>>
  ELSE LET cols == CeilSqrt(count)
           rows == CeilDiv(count, cols)
           cellWidth == (canvasWidth - padding * 2) \div cols
           cellHeight == (canvasHeight - padding * 2) \div rows
       IN <<padding + (cellWidth * (2 * (idx % cols) + 1)) \div 2,
            padding + (cellHeight * (2 * (idx \div cols) + 1)) \div 2>>

StrategyBands(count) ==
  IF count = 1 THEN Bands(4 * 100, 4 * 50, 4 * 180, 4 * 60, TRUE)
  ELSE IF count = 2 THEN Bands(4 * 35, 4 * 35, 4 * 90, 4 * 60, FALSE)
  ELSE IF count <= 4 THEN Bands(4 * 30, 4 * 30, 4 * 70, 4 * 50, FALSE)
  ELSE LET cols == CeilSqrt(count)
           rows == CeilDiv(count, cols)
           maxRadius == (Min((canvasWidth - padding * 2) \div cols,
                             (canvasHeight - padding * 2) \div rows) * 3) \div 10
       IN Bands(4 * 25, 4 * 25, maxRadius \div 2, maxRadius \div 2, FALSE)

RECURSIVE PositionClusters(_, _, _, _, _)
\* positionSingleClusterWithOverlap, positionTwoClusters,
\* positionQuadrantClusters or positionGridClusters, by the cluster count
PositionClusters(ths, all, idx, seed, acc) ==
  IF idx >= Len(all) THEN acc
  ELSE LET count == Len(all)
           cluster == all[idx + 1]
           center == Anchor(count, idx)
           members == SelectSeq(ths, LAMBDA t : t.id \in SeqToSet(cluster.thoughtIds))
       IN PositionClusters(ths, all, idx + 1, seed,
            [positions |-> PlaceCluster(ths, cluster, acc.positions, center,
                                        StrategyBands(count), seed),
             clusters |-> Append(acc.clusters,
                IF count = 1 \/ members # <<>>
                  THEN [cluster EXCEPT !.centerX = center[1], !.centerY = center[2]]
                  ELSE cluster)])

NoPositions == [id \in {} |-> <<0, 0>>]

RECURSIVE StrongFromOrdered(_, _, _)
\* the strong connections with a pair known only in the order it was pushed
StrongFromOrdered(ths, i, strong) ==
  IF i > Len(ths) THEN strong
  ELSE LET thought == ths[i]
           first == SubSeq(thought.connections, 1, Min(3, Len(thought.connections)))
           Known(acc, pair) ==
             \E m \in 1..Len(acc) : acc[m][1] = pair[1] /\ acc[m][2] = pair[2]
           Add3(acc) ==
             LET a1 == IF Known(acc, <<thought.id, first[1]>>) THEN acc
                       ELSE Append(acc, <<thought.id, first[1]>>)
                 a2 == IF Known(a1, <<thought.id, first[2]>>) THEN a1
                       ELSE Append(a1, <<thought.id, first[2]>>)
             IN IF Known(a2, <<thought.id, first[3]>>) THEN a2
                ELSE Append(a2, <<thought.id, first[3]>>)
       IN StrongFromOrdered(ths, i + 1,
                            IF Len(thought.connections) >= 3 THEN Add3(strong) ELSE strong)

RECURSIVE StrongFrom(_, _, _)
\* thoughts.forEach: the first three connections of a thought with three or
\* more, each pushed unless the pair is there in either order
StrongFrom(ths, i, strong) ==
  IF i > Len(ths) THEN strong
  ELSE LET thought == ths[i]
           first == SubSeq(thought.connections, 1, Min(3, Len(thought.connections)))
           Known(acc, pair) ==
             \E m \in 1..Len(acc) :
               \/ acc[m][1] = pair[1] /\ acc[m][2] = pair[2]
               \/ acc[m][1] = pair[2] /\ acc[m][2] = pair[1]
           Add3(acc) ==
             LET a1 == IF Known(acc, <<thought.id, first[1]>>) THEN acc
                       ELSE Append(acc, <<thought.id, first[1]>>)
                 a2 == IF Known(a1, <<thought.id, first[2]>>) THEN a1
                       ELSE Append(a1, <<thought.id, first[2]>>)
             IN IF Known(a2, <<thought.id, first[3]>>) THEN a2
                ELSE Append(a2, <<thought.id, first[3]>>)
       IN StrongFrom(ths, i + 1,
                     IF Len(thought.connections) >= 3 THEN Add3(strong) ELSE strong)

EmptyLayout == [positions |-> NoPositions, clusters |-> <<>>, strongConnections |-> <<>>]

organizeThoughtsWithAI(ths, seed) ==
  IF Len(ths) = 0 THEN EmptyLayout
  ELSE LET placed == PositionClusters(ths, identifyClusters(ths), 0, seed,
                                      [positions |-> NoPositions, clusters |-> <<>>])
       IN [positions |-> placed.positions,
           clusters |-> placed.clusters,
           strongConnections |-> StrongFrom(ths, 1, <<>>)]


(***************************************************************************)
(* The insights derived from nodes and wordFrequency                       *)
(***************************************************************************)
RECURSIVE Distinct(_, _)
\* the elements of q not in acc, appended to acc in order of first occurrence
Distinct(q, acc) ==
  IF q = <<>> THEN acc
  ELSE Distinct(Tail(q), IF Head(q) \in SeqToSet(acc) THEN acc ELSE Append(acc, Head(q)))

RECURSIVE Flatten(_)
Flatten(qs) == IF qs = <<>> THEN <<>> ELSE Head(qs) \o Flatten(Tail(qs))

\* Object.entries(wordFrequency): the [word, count] pairs in insertion order
wordFrequencyEntries(ths) ==
  LET wf == wordFrequency(ths)
      keys == Distinct(Flatten([k \in 1..Len(ths) |-> FrequencyWords(ths[k].text)]), <<>>)
  IN [i \in 1..Len(keys) |-> [word |-> keys[i], count |-> wf[keys[i]]]]

RECURSIVE InsertDescending(_, _)
\* e inserted after every pair of the sorted sequence whose key is not smaller
InsertDescending(sorted, e) ==
  IF sorted = <<>> THEN <<e>>
  ELSE IF Head(sorted).key >= e.key
       THEN <<Head(sorted)>> \o InsertDescending(Tail(sorted), e)
       ELSE <<e>> \o sorted

RECURSIVE SortPairs(_)
SortPairs(q) ==
  IF q = <<>> THEN <<>>
  ELSE InsertDescending(SortPairs(SubSeq(q, 1, Len(q) - 1)), q[Len(q)])

\* Array.prototype.sort((a, b) => key(b) - key(a)), which is stable;
\* keys[i] is the key of q[i]
SortDescending(q, keys) ==
  LET sorted == SortPairs([i \in 1..Len(q) |-> [key |-> keys[i], value |-> q[i]]])
  IN [i \in 1..Len(q) |-> sorted[i].value]

Slice(q, n) == SubSeq(q, 1, Min(n, Len(q)))

\* a variant that takes the words of any count
topWordsOfAnyCount(entries, least, n) ==
  Slice(SortDescending(entries, [i \in 1..Len(entries) |-> entries[i].count]), n)

\* entries.filter(count >= least).sort(descending count).slice(0, n)
topWords(entries, least, n) ==
  LET kept == SelectSeq(entries, LAMBDA e : e.count >= least)
  IN Slice(SortDescending(kept, [i \in 1..Len(kept) |-> kept[i].count]), n)

Ids(ns) == [k \in 1..Len(ns) |-> ns[k].id]

\* text.substring(0, n) + (text.length > n ? '...' : '')
Preview(text, n) == Slice(text, n) \o (IF Len(text) > n THEN <<".", ".", ".">> ELSE <<>>)

hubsOf(ns) ==
  LET kept == SelectSeq(ns, LAMBDA n : Len(n.connections) >= 3)
  IN SortDescending(kept, [i \in 1..Len(kept) |-> Len(kept[i].connections)])

isolatedOf(ns) == SelectSeq(ns, LAMBDA n : Len(n.connections) = 0)

denseClustersOf(ns) == SelectSeq(ns, LAMBDA n : n.touchCount >= 3)

patterns(ns, entries) ==
  IF Len(ns) = 0 THEN <<>>
  ELSE LET denseClusters == denseClustersOf(ns)
           hubs == hubsOf(ns)
           isolated == isolatedOf(ns)
           top == topWords(entries, 2, 5)
       IN (IF Len(denseClusters) > 0
           THEN <<[type |-> "cluster", count |-> Len(denseClusters),
                   detail |-> <<>>, thoughtIds |-> Ids(denseClusters)]>>
           ELSE <<>>)
          \o (IF Len(hubs) > 0
              THEN <<[type |-> "hub", count |-> Len(hubs),
                      detail |-> IF hubs[1].text # <<>> THEN Preview(hubs[1].text, 50)
                                 ELSE <<"Key thought">>,
                      thoughtIds |-> Ids(hubs)]>>
              ELSE <<>>)
          \o (IF Len(isolated) > 0
              THEN <<[type |-> "isolated", count |-> Len(isolated),
                      detail |-> <<>>, thoughtIds |-> Ids(isolated)]>>
              ELSE <<>>)
          \o (IF Len(top) > 0
              THEN <<[type |-> "theme", count |-> Len(top),
                      detail |-> top, thoughtIds |-> <<>>]>>
              ELSE <<>>)

StartAddingThoughts ==
  "Start adding thoughts to see patterns emerge and understand the connections between your ideas."

\* the sentences of the summary, each a template with its arguments
synthesisSentences(ns, entries) ==
  LET hubs == hubsOf(ns)
      isolated == isolatedOf(ns)
      denseClusters == denseClustersOf(ns)
      mergedBubbles == SelectSeq(ns, LAMBDA n : n.isMerged)
      top == topWords(entries, 2, 5)
      opening ==
        IF Len(ns) < 5 THEN <<"You're exploring", Len(ns)>>
        ELSE IF Len(ns) < 15
             THEN IF Len(denseClusters) > 0
                  THEN <<"Your network contains", Len(ns), "forming dense clusters", Len(denseClusters)>>
                  ELSE <<"Your network contains", Len(ns), "beginning to organize">>
             ELSE IF Len(denseClusters) > 5
                  THEN <<"You've built a constellation of", Len(ns), "clustering densely", Len(denseClusters)>>
                  ELSE IF Len(mergedBubbles) > 0
                       THEN <<"You've built a constellation of", Len(ns), "merged clusters", Len(mergedBubbles)>>
                       ELSE <<"You've built a constellation of", Len(ns), "forming an interconnected web">>
      topThemes == [i \in 1..Len(Slice(top, 3)) |-> top[i].word]
      themes ==
        IF Len(top) = 0 THEN <<>>
        ELSE IF Len(topThemes) = 1 THEN << <<"Key Focus", topThemes>> >>
        ELSE IF Len(topThemes) = 2 THEN << <<"Main Themes", topThemes>> >>
        ELSE << <<"Core Themes", topThemes>> >>
      largestCluster == SortDescending(denseClusters,
                        [i \in 1..Len(denseClusters) |-> denseClusters[i].touchCount])[1]
      dense ==
        IF Len(denseClusters) = 0 THEN <<>>
        ELSE IF largestCluster.text # <<>>
             THEN << <<"Your densest cluster around", Preview(largestCluster.text, 40),
                       largestCluster.touchCount>> >>
             ELSE << <<"You have dense clusters", Len(denseClusters)>> >>
      hub ==
        IF Len(hubs) = 0 THEN <<>>
        ELSE << <<"Central Connector",
                  IF hubs[1].text # <<>> THEN Preview(hubs[1].text, 35) ELSE <<"One thought">>,
                  Len(hubs[1].connections),
                  IF Len(hubs[1].connections) >= 5
                  THEN "this is a foundational concept worth exploring deeper."
                  ELSE "examine this hub to understand your conceptual structure.">> >>
      \* totalConnections / nodes.length > 2, totalConnections half the sum
      connectionSum == SumSeq([k \in 1..Len(ns) |-> Len(ns[k].connections)])
      cohesion ==
        IF 10 * Len(isolated) > 4 * Len(ns)
        THEN <<"thoughts remain isolated", Len(isolated)>>
        ELSE IF connectionSum > 4 * Len(ns)
             THEN <<"Strong network cohesion indicates well-integrated thinking.">>
             ELSE <<"Connections are forming naturally.">>
      closing ==
        IF Len(hubs) >= 2 /\ Len(isolated) > 0
        THEN <<"Next: Bridge your standalone ideas to your hubs", Len(isolated), Len(hubs)>>
        ELSE IF Len(denseClusters) > 0 /\ Len(isolated) > 5
             THEN <<"Next: Connect isolated thoughts to existing clusters">>
             ELSE IF Len(top) > 2
                  THEN <<"Next: Explore how the themes relate", top[1].word, top[2].word>>
                  ELSE <<"Next: Continue adding thoughts to reveal deeper patterns and connections.">>
  IN <<opening>> \o themes \o dense \o hub \o <<cohesion, closing>>

synthesis(ns, entries) ==
  IF Len(ns) = 0 THEN << <<StartAddingThoughts>> >>
  ELSE synthesisSentences(ns, entries)

AddMoreThoughts == "Add more thoughts to reveal deeper patterns and connections."

KeepAdding == "Your thought constellation is taking shape. Keep adding and connecting ideas!"

\* the suggestions before the default is considered, the node-count check
\* made by the given predicate
suggestionChecks(ns, entries, fewNodes) ==
  LET isolated == isolatedOf(ns)
      hubs == SelectSeq(ns, LAMBDA n : Len(n.connections) >= 3)
      top == topWords(entries, 3, 3)
  IN (IF 10 * Len(isolated) > 3 * Len(ns)
      THEN << <<"Many thoughts are isolated. Try connecting related ideas to see clearer patterns.">> >>
      ELSE <<>>)
     \o (IF Len(hubs) > 0 /\ Len(isolated) > 0
         THEN << <<"Explore how your standalone ideas relate to your central concepts", Len(hubs)>> >>
         ELSE <<>>)
     \o (IF fewNodes THEN << <<AddMoreThoughts>> >> ELSE <<>>)
     \o (IF Len(hubs) >= 2
         THEN << <<"You have strong themes emerging. Consider how they might connect to each other.", Len(hubs)>> >>
         ELSE <<>>)
     \o (IF Len(top) > 0
         THEN << <<"appears times. This seems to be a central focus.", top[1].word, top[1].count>> >>
         ELSE <<>>)

WithDefault(sugg) == IF Len(sugg) = 0 THEN << <<KeepAdding>> >> ELSE sugg

\* the node-count check asking for at least one node
suggestionsOfSomeNodes(ns, entries) ==
  WithDefault(suggestionChecks(ns, entries, Len(ns) > 0 /\ Len(ns) < 10))

suggestions(ns, entries) ==
  WithDefault(suggestionChecks(ns, entries, Len(ns) < 10))

(***************************************************************************)
(* The view: ThoughtConstellation as a state machine                       *)
(***************************************************************************)
LineTerminators == {"\n", "\r"}

\* text.match(/^(.+?):/)?.[1], or the fallback when there is no match
ThemeOf(text, fallback) ==
  LET ends == {i \in 2..Len(text) :
                 /\ text[i] = ":"
                 /\ \A j \in 1..(i - 1) : text[j] \notin LineTerminators}
  IN IF ends = {} THEN fallback
     ELSE SubSeq(text, 1, (CHOOSE i \in ends : \A j \in ends : i <= j) - 1)

\* the questions one merged cluster contributes
clusterQuestions(cluster, ths) ==
  LET found == [i \in 1..Len(cluster.mergedIds) |->
                  IF HasThought(ths, cluster.mergedIds[i])
                    THEN FindThought(ths, cluster.mergedIds[i]).text ELSE <<>>]
      thoughtTexts == Slice(SelectSeq(found, LAMBDA t : t # <<>>), 3)
      theme == ThemeOf(cluster.text, <<"this cluster">>)
  IN IF Len(thoughtTexts) = 0 THEN <<>>
     ELSE (IF Len(cluster.mergedIds) >= 5
           THEN <<[question |-> <<"What is the core insight connecting your thoughts",
                                  Len(cluster.mergedIds), theme>>,
                   relatedThoughts |-> cluster.mergedIds],
                  [question |-> <<"How would you prioritize these ideas", theme>>,
                   relatedThoughts |-> cluster.mergedIds]>>
           ELSE <<[question |-> <<"You have overlapping thoughts",
                                  Len(cluster.mergedIds), theme>>,
                   relatedThoughts |-> cluster.mergedIds]>>)
          \o (IF Len(thoughtTexts) >= 2
              THEN <<[question |-> <<"These thoughts seem related",
                                     Slice(thoughtTexts[1], 40), Slice(thoughtTexts[2], 40)>>,
                      relatedThoughts |-> Slice(cluster.mergedIds, 2)]>>
              ELSE <<>>)

\* the questions array before the cap; cluster.synthesis is a non-empty
\* string on every node that mergeOverlappingThoughts merged
generatedQuestions(ns, ths) ==
  LET merged == SelectSeq(ns, LAMBDA n : Len(n.mergedIds) > 1)
      isolated == SelectSeq(ns, LAMBDA n : Len(n.connections) = 0 /\ Len(n.mergedIds) > 0)
      topClusters == Slice(SortDescending(merged,
                        [i \in 1..Len(merged) |-> Len(merged[i].mergedIds)]), 2)
      questions ==
        Flatten([k \in 1..Len(merged) |-> clusterQuestions(merged[k], ths)])
        \o (IF Len(isolated) > 0 /\ HasThought(ths, isolated[1].mergedIds[1])
            THEN <<[question |-> <<"stands alone",
                                   Slice(FindThought(ths, isolated[1].mergedIds[1]).text, 50)>>,
                    relatedThoughts |-> isolated[1].mergedIds]>>
            ELSE <<>>)
        \o (IF Len(merged) >= 2
            THEN <<[question |-> <<"Your thinking has two major threads",
                                   ThemeOf(topClusters[1].text, <<"Cluster 1">>),
                                   ThemeOf(topClusters[2].text, <<"Cluster 2">>)>>,
                    relatedThoughts |-> topClusters[1].mergedIds \o topClusters[2].mergedIds]>>
            ELSE <<>>)
  IN questions

\* the value handed to setAiQuestions with slice(-5) in place of slice(0, 5)
generateAIQuestionsLastFive(ns, ths) ==
  LET questions == generatedQuestions(ns, ths)
  IN SubSeq(questions, Max(1, Len(questions) - 4), Len(questions))

\* the value handed to setAiQuestions: questions.slice(0, 5)
generateAIQuestions(ns, ths) == Slice(generatedQuestions(ns, ths), 5)

\* the body of the organize request
thoughtData(ns) ==
  [k \in 1..Len(ns) |-> [id |-> ns[k].id, text |-> ns[k].text,
                         connections |-> ns[k].connections,
                         prevalence |-> ns[k].prevalence]]

\* generateAIQuestions(densityScaledNodes), the last statement of the effect
StepQuestions ==
  /\ stage = "scaled"
  /\ aiQuestions' = generateAIQuestions(nodes, thoughts)
  /\ stage' = "asked"
  /\ UNCHANGED <<thoughts, mergeThreshold, nodes, previous>>
  /\ UNCHANGED <<isOrganized, isOrganizing, clusters, strongConnections, hiddenBubbles,
                 isGroupingMode, selectedNodes, manualGroups, inFlight, now, spent>>

PipelineNext ==
  \/ StepInitialNodes /\ UNCHANGED <<textVars, layoutVars, serviceVars, uiVars, logVars, docVars>>
  \/ StepFindConnections /\ UNCHANGED <<textVars, layoutVars, serviceVars, uiVars, logVars, docVars>>
  \/ StepMerge /\ UNCHANGED <<textVars, layoutVars, serviceVars, uiVars, logVars, docVars>>
  \/ StepDensity /\ UNCHANGED <<textVars, layoutVars, serviceVars, uiVars, logVars, docVars>>
  \/ StepQuestions /\ UNCHANGED <<textVars, layoutVars, serviceVars, logVars, docVars>>
  \/ StepSetMergeThreshold /\ UNCHANGED <<textVars, layoutVars, serviceVars, uiVars, logVars, docVars>>

PipelineSpec == PipelineInit /\ [][PipelineNext]_vars

\* the thoughts the query returns, in its order
ViewCatalog ==
  <<[id |-> "h3", text |-> ExampleCatalog["h3"]],
    [id |-> "a", text |-> LetterCatalog["a"]],
    [id |-> "b", text |-> LetterCatalog["b"]]>>

MaxViewThoughts == 2

\* filteredThoughts: no thought, or the thoughts of a window of dates
ViewThoughtLists ==
  {<<>>} \cup {SubSeq(ViewCatalog, i, i + MaxViewThoughts - 1) :
                 i \in 1..(Len(ViewCatalog) - MaxViewThoughts + 1)}

ViewThresholds == {40, 20}

ViewLayouts == {"near"}

ViewSeeds == {0, 6}

MaxGroups == 2

MaxEvents == 9

\* one more event: a gesture of the user, new props from the page or an
\* animation frame
Event ==
  /\ spent < MaxEvents
  /\ spent' = spent + 1

\* the view mounted on some filteredThoughts, its effect run once
ViewInit ==
  /\ thoughts \in ViewThoughtLists
  /\ mergeThreshold = 20
  /\ \E layout \in ViewLayouts : nodes = densityScaledNodes(thoughts, 20, layout)
  /\ aiQuestions = generateAIQuestions(nodes, thoughts)
  /\ isOrganized = FALSE /\ isOrganizing = FALSE
  /\ clusters = <<>> /\ strongConnections = <<>>
  /\ hiddenBubbles = {}
  /\ isGroupingMode = FALSE /\ selectedNodes = <<>>
  /\ manualGroups = <<>>
  /\ inFlight = <<>>
  /\ now = 0
  /\ spent = 0
  /\ textA = <<>> /\ textB = <<>> /\ applied = NotApplied
  /\ stage = "none" /\ previous = NoPrevious
  /\ request = <<>> /\ response = NotServed
  /\ ServiceIdle
  /\ consoleErrors = 0
  /\ NoDocuments

\* the effect on [thoughts, wordFrequency, mergeThreshold]: an organize
\* request in flight was computed for the nodes this replaces
Rebuild(ths, threshold, layout) ==
  /\ nodes' = densityScaledNodes(ths, threshold, layout)
  /\ isOrganized' = FALSE
  /\ aiQuestions' = generateAIQuestions(nodes', ths)
  /\ inFlight' = [k \in 1..Len(inFlight) |-> [inFlight[k] EXCEPT !.stale = TRUE]]

\* the page hands over another filteredThoughts
SetThoughts ==
  /\ Event
  /\ \E ths \in ViewThoughtLists, layout \in ViewLayouts :
       /\ thoughts' = ths
       /\ Rebuild(ths, mergeThreshold, layout)
  /\ UNCHANGED <<mergeThreshold, isOrganizing, clusters, strongConnections, hiddenBubbles,
                 isGroupingMode, selectedNodes, manualGroups, now>>

\* the Bubble Count select
SetMergeThreshold ==
  /\ Event
  /\ \E t \in ViewThresholds \ {mergeThreshold}, layout \in ViewLayouts :
       /\ mergeThreshold' = t
       /\ Rebuild(thoughts, t, layout)
  /\ UNCHANGED <<thoughts, isOrganizing, clusters, strongConnections, hiddenBubbles,
                 isGroupingMode, selectedNodes, manualGroups, now>>

\* a tenth of the way d, kept on the quarter-pixel grid by rounding away
\* from zero
TenthOf(d) == IF d >= 0 THEN (d + 9) \div 10 ELSE -((9 - d) \div 10)

\* a variant that leaves a node within one pixel of its target where it is
movedNodeWithoutSnap(node) ==
  IF isOrganized /\ node.hasTarget
  THEN LET dx == node.targetX - node.x
           dy == node.targetY - node.y
       IN IF dx * dx + dy * dy > 16
          THEN [node EXCEPT !.x = node.x + TenthOf(dx), !.y = node.y + TenthOf(dy)]
          ELSE node
  ELSE node

\* the physics update of one node
movedNode(node) ==
  IF isOrganized /\ node.hasTarget
  THEN LET dx == node.targetX - node.x
           dy == node.targetY - node.y
       IN IF dx * dx + dy * dy > 16
          THEN [node EXCEPT !.x = node.x + TenthOf(dx), !.y = node.y + TenthOf(dy)]
          ELSE [node EXCEPT !.x = node.targetX, !.y = node.targetY]
  ELSE node

\* the recalculation as it would be if it measured and scaled the radius the
\* previous frame left
densityUpdatedNodesFromRadius(updatedNodes) ==
  [k \in 1..Len(updatedNodes) |->
    LET touchCount ==
          Cardinality({j \in 1..Len(updatedNodes) :
            /\ updatedNodes[j].id # updatedNodes[k].id
            /\ LET dx == updatedNodes[k].x - updatedNodes[j].x
                   dy == updatedNodes[k].y - updatedNodes[j].y
                   reach == (updatedNodes[k].radius + updatedNodes[j].radius) \div 20
               IN dx * dx + dy * dy < reach * reach})
    IN [updatedNodes[k] EXCEPT !.touchCount = touchCount,
                               !.radius = (updatedNodes[k].radius * (20 + 3 * touchCount)) \div 20]]

\* baseRadius * (1 + touchCount * 0.15); baseRadius is not stored
densityUpdatedNodes(updatedNodes) ==
  [k \in 1..Len(updatedNodes) |->
    LET baseRadius == BaseRadiusOf(updatedNodes[k])
        touchCount == TouchCountOf(updatedNodes, updatedNodes[k], baseRadius)
    IN [updatedNodes[k] EXCEPT !.touchCount = touchCount,
                               !.radius = (baseRadius * (20 + 3 * touchCount)) \div 20]]

\* one animation frame
Tick ==
  /\ Event
  /\ Len(nodes) > 0
  /\ nodes' = densityUpdatedNodes([k \in 1..Len(nodes) |-> movedNode(nodes[k])])
  /\ UNCHANGED <<thoughts, mergeThreshold, isOrganized, isOrganizing, clusters,
                 strongConnections, hiddenBubbles, aiQuestions, isGroupingMode,
                 selectedNodes, manualGroups, inFlight, now>>

\* Connect the Dots, up to the await
HandleOrganize ==
  /\ Event
  /\ ~isOrganized /\ ~isOrganizing /\ Len(thoughts) > 0
  /\ Len(nodes) > 0
  /\ isOrganizing' = TRUE
  /\ inFlight' = <<[thoughts |-> thoughtData(nodes), stale |-> FALSE]>>
  /\ UNCHANGED <<thoughts, mergeThreshold, nodes, isOrganized, clusters, strongConnections,
                 hiddenBubbles, aiQuestions, isGroupingMode, selectedNodes, manualGroups, now>>

\* the node with its target from the response
targetedNode(node, positions) ==
  [node EXCEPT !.hasTarget = TRUE,
               !.targetX = IF node.id \in DOMAIN positions THEN positions[node.id][1] ELSE node.x,
               !.targetY = IF node.id \in DOMAIN positions THEN positions[node.id][2] ELSE node.y]

\* handleOrganize from the await on, the response ok
OrganizeSucceed ==
  /\ inFlight # <<>>
  /\ \E seed \in ViewSeeds :
       LET organized == organizeThoughtsWithAI(inFlight[1].thoughts, seed)
       IN /\ nodes' = [k \in 1..Len(nodes) |-> targetedNode(nodes[k], organized.positions)]
          /\ clusters' = organized.clusters
          /\ strongConnections' = organized.strongConnections
  /\ isOrganized' = TRUE
  /\ isOrganizing' = FALSE
  /\ inFlight' = <<>>
  /\ UNCHANGED <<thoughts, mergeThreshold, hiddenBubbles, aiQuestions, isGroupingMode,
                 selectedNodes, manualGroups, now, spent>>

\* a variant without the finally block
OrganizeFailStillBusy ==
  /\ inFlight # <<>>
  /\ inFlight' = <<>>
  /\ consoleErrors' = consoleErrors + 1
  /\ UNCHANGED <<thoughts, mergeThreshold, nodes, isOrganized, isOrganizing, clusters,
                 strongConnections, hiddenBubbles, aiQuestions, isGroupingMode,
                 selectedNodes, manualGroups, now, spent>>

\* handleOrganize from the await on, the fetch rejected or the response not
\* ok: the catch logs the error and the finally block clears the busy flag
OrganizeFail ==
  /\ inFlight # <<>>
  /\ isOrganizing' = FALSE
  /\ inFlight' = <<>>
  /\ consoleErrors' = consoleErrors + 1
  /\ UNCHANGED <<thoughts, mergeThreshold, nodes, isOrganized, clusters, strongConnections,
                 hiddenBubbles, aiQuestions, isGroupingMode, selectedNodes, manualGroups, now, spent>>

\* Reset Layout
HandleReset ==
  /\ Event
  /\ isOrganized
  /\ nodes' = [k \in 1..Len(nodes) |->
                 [nodes[k] EXCEPT !.hasTarget = FALSE, !.targetX = 0, !.targetY = 0]]
  /\ isOrganized' = FALSE
  /\ clusters' = <<>>
  /\ strongConnections' = <<>>
  /\ UNCHANGED <<thoughts, mergeThreshold, isOrganizing, hiddenBubbles, aiQuestions,
                 isGroupingMode, selectedNodes, manualGroups, inFlight, now>>

\* Math.sqrt(dx * dx + dy * dy) < node.radius, the point in 1/4 pixel
Covers(node, point) ==
  LET dx == node.x - point[1]
      dy == node.y - point[2]
      reach == node.radius \div 20 + 1
  IN /\ dx < reach /\ -dx < reach /\ dy < reach /\ -dy < reach
     /\ dx * dx + dy * dy <= (node.radius * node.radius - 1) \div 400

Toggle(q, id) ==
  IF id \in SeqToSet(q) THEN SelectSeq(q, LAMBDA e : e # id) ELSE Append(q, id)

\* the points a click is tried at: the centre of a bubble and the four
\* points one pixel inside its rim
ClickPoints(node) ==
  LET reach == node.radius \div 20 - 4
  IN {<<node.x, node.y>>,
      <<node.x + reach, node.y>>, <<node.x - reach, node.y>>,
      <<node.x, node.y + reach>>, <<node.x, node.y - reach>>}

\* a click on the canvas
HandleCanvasClick ==
  /\ Event
  /\ \E point \in UNION {ClickPoints(nodes[at]) : at \in 1..Len(nodes)} :
       LET hits == {k \in 1..Len(nodes) :
                      nodes[k].id \notin hiddenBubbles /\ Covers(nodes[k], point)}
           clicked == nodes[CHOOSE k \in hits : \A j \in hits : k <= j]
           groups == {g \in 1..Len(manualGroups) : manualGroups[g].parentId = clicked.id}
           group == manualGroups[CHOOSE g \in groups : \A h \in groups : g <= h]
       IN /\ hits # {}
          /\ IF isGroupingMode
             THEN /\ selectedNodes' = Toggle(selectedNodes, clicked.id)
                  /\ UNCHANGED <<manualGroups, hiddenBubbles>>
             ELSE IF groups # {}
             THEN /\ manualGroups' =
                       [g \in 1..Len(manualGroups) |->
                          IF manualGroups[g].id = group.id
                            THEN [manualGroups[g] EXCEPT !.showChildren = ~@]
                            ELSE manualGroups[g]]
                  /\ UNCHANGED <<selectedNodes, hiddenBubbles>>
             ELSE /\ hiddenBubbles' =
                       IF clicked.id \in hiddenBubbles THEN hiddenBubbles \ {clicked.id}
                       ELSE hiddenBubbles \cup {clicked.id}
                  /\ UNCHANGED <<selectedNodes, manualGroups>>
  /\ UNCHANGED <<thoughts, mergeThreshold, nodes, isOrganized, isOrganizing, clusters,
                 strongConnections, aiQuestions, isGroupingMode, inFlight, now>>

HandleShowAll ==
  /\ Event
  /\ hiddenBubbles # {}
  /\ hiddenBubbles' = {}
  /\ UNCHANGED <<thoughts, mergeThreshold, nodes, isOrganized, isOrganizing, clusters,
                 strongConnections, aiQuestions, isGroupingMode, selectedNodes,
                 manualGroups, inFlight, now>>

\* the Manual Group button
EnterGroupingMode ==
  /\ Event
  /\ ~isGroupingMode
  /\ isGroupingMode' = TRUE
  /\ UNCHANGED <<thoughts, mergeThreshold, nodes, isOrganized, isOrganizing, clusters,
                 strongConnections, hiddenBubbles, aiQuestions, selectedNodes,
                 manualGroups, inFlight, now>>

HandleCancelGrouping ==
  /\ Event
  /\ isGroupingMode
  /\ isGroupingMode' = FALSE
  /\ selectedNodes' = <<>>
  /\ UNCHANGED <<thoughts, mergeThreshold, nodes, isOrganized, isOrganizing, clusters,
                 strongConnections, hiddenBubbles, aiQuestions, manualGroups, inFlight, now>>

\* Math.max(100, Math.min(200, 100 + size * 15)) in 1/80 pixel
GroupRadius(size) == 80 * Max(100, Min(200, 100 + size * 15))

GroupText(size) ==
  <<"G", "r", "o", "u", "p", ":", " ", DigitChars[size], " ",
    "t", "h", "o", "u", "g", "h", "t", "s">>

\* the ids a group parent stands for
selectedNodeIds(selected) == selected

parentNode(selected, selectedNodeObjects, parentId) ==
  LET count == Len(selectedNodeObjects)
      sumOf(f(_)) == SumSeq([k \in 1..count |-> f(selectedNodeObjects[k])])
  IN [id |-> parentId,
      text |-> GroupText(Len(selected)),
      x |-> sumOf(LAMBDA n : n.x) \div count,
      y |-> sumOf(LAMBDA n : n.y) \div count,
      hasTarget |-> FALSE, targetX |-> 0, targetY |-> 0,
      radius |-> GroupRadius(Len(selected)),
      connections |-> <<>>,
      prevalence |-> sumOf(LAMBDA n : n.prevalence) \div Len(selected),
      mergedIds |-> selectedNodeIds(selected),
      isMerged |-> TRUE,
      baseRadius |-> GroupRadius(Len(selected)),
      touchCount |-> 0]

\* Create Group; with no selected id left among the nodes, reading
\* selectedNodeObjects[0].color throws before any state is set
HandleCreateGroup ==
  /\ Event
  /\ isGroupingMode
  /\ Len(selectedNodes) >= 2
  /\ now < MaxGroups
  /\ LET selectedNodeObjects == SelectSeq(nodes, LAMBDA n : n.id \in SeqToSet(selectedNodes))
         stamp == ToString(now + 1)
     IN /\ selectedNodeObjects # <<>>
        /\ nodes' = Append(nodes, parentNode(selectedNodes, selectedNodeObjects,
                                             "group-parent-" \o stamp))
        /\ manualGroups' = Append(manualGroups,
                                  [id |-> "group-" \o stamp,
                                   parentId |-> "group-parent-" \o stamp,
                                   childIds |-> selectedNodes,
                                   showChildren |-> FALSE])
  /\ hiddenBubbles' = hiddenBubbles \cup SeqToSet(selectedNodes)
  /\ isGroupingMode' = FALSE
  /\ selectedNodes' = <<>>
  /\ now' = now + 1
  /\ UNCHANGED <<thoughts, mergeThreshold, isOrganized, isOrganizing, clusters,
                 strongConnections, aiQuestions, inFlight>>

ViewNext ==
  \/ SetThoughts /\ UNCHANGED <<textVars, pipeVars, layoutVars, serviceVars, logVars, docVars>>
  \/ SetMergeThreshold /\ UNCHANGED <<textVars, pipeVars, layoutVars, serviceVars, logVars, docVars>>
  \/ Tick /\ UNCHANGED <<textVars, pipeVars, layoutVars, serviceVars, logVars, docVars>>
  \/ HandleOrganize /\ UNCHANGED <<textVars, pipeVars, layoutVars, serviceVars, logVars, docVars>>
  \/ OrganizeSucceed /\ UNCHANGED <<textVars, pipeVars, layoutVars, serviceVars, logVars, docVars>>
  \/ OrganizeFail /\ UNCHANGED <<textVars, pipeVars, layoutVars, serviceVars, docVars>>
  \/ HandleReset /\ UNCHANGED <<textVars, pipeVars, layoutVars, serviceVars, logVars, docVars>>
  \/ HandleCanvasClick /\ UNCHANGED <<textVars, pipeVars, layoutVars, serviceVars, logVars, docVars>>
  \/ HandleShowAll /\ UNCHANGED <<textVars, pipeVars, layoutVars, serviceVars, logVars, docVars>>
  \/ EnterGroupingMode /\ UNCHANGED <<textVars, pipeVars, layoutVars, serviceVars, logVars, docVars>>
  \/ HandleCancelGrouping /\ UNCHANGED <<textVars, pipeVars, layoutVars, serviceVars, logVars, docVars>>
  \/ HandleCreateGroup /\ UNCHANGED <<textVars, pipeVars, layoutVars, serviceVars, logVars, docVars>>

ViewSpec == ViewInit /\ [][ViewNext]_vars

(***************************************************************************)
(* The animation after Connect the Dots, with no other event: the frames   *)
(* that requestAnimationFrame keeps scheduling                             *)
(***************************************************************************)
\* one animation frame, scheduled again by every frame
Animate ==
  /\ Len(nodes) > 0
  /\ nodes' = densityUpdatedNodes([k \in 1..Len(nodes) |-> movedNode(nodes[k])])
  /\ UNCHANGED <<thoughts, mergeThreshold, isOrganized, isOrganizing, clusters,
                 strongConnections, hiddenBubbles, aiQuestions, isGroupingMode,
                 selectedNodes, manualGroups, inFlight, now, spent>>

AnimationNext ==
  \/ HandleOrganize /\ UNCHANGED <<textVars, pipeVars, layoutVars, serviceVars, logVars, docVars>>
  \/ OrganizeSucceed /\ UNCHANGED <<textVars, pipeVars, layoutVars, serviceVars, logVars, docVars>>
  \/ Animate /\ UNCHANGED <<textVars, pipeVars, layoutVars, serviceVars, logVars, docVars>>

AnimationSpec ==
  ViewInit /\ [][AnimationNext]_vars
    /\ WF_vars(Animate /\ UNCHANGED <<textVars, pipeVars, layoutVars, serviceVars, logVars,
                                       docVars>>)

(***************************************************************************)
(* The layout engine called on request bodies                              *)
(***************************************************************************)
MaxRequestThoughts == 3

RequestIds == <<"n1", "n2", "n3", "n4", "n5", "n6", "n7", "n8">>

\* an id that is the id of no thought of the request
DanglingId == "gone"

RECURSIVE SubSeqs(_)
\* the subsequences of a sequence
SubSeqs(q) ==
  IF q = <<>> THEN {<<>>}
  ELSE LET rest == SubSeqs(Tail(q))
       IN rest \cup {<<Head(q)>> \o r : r \in rest}

\* the request bodies: n thoughts, each connected to any of the other ids and
\* of the dangling id
Requests(n) ==
  LET ids == SubSeq(RequestIds, 1, n)
      targets(k) == SelectSeq(ids \o <<DanglingId>>, LAMBDA id : id # ids[k])
  IN {[k \in 1..n |-> [id |-> ids[k], text |-> <<ids[k]>>,
                       connections |-> c[k], prevalence |-> pr[k]]] :
        c \in [1..n -> UNION {SubSeqs(targets(k)) : k \in 1..n}] \cap
              {f \in [1..n -> UNION {SubSeqs(targets(k)) : k \in 1..n}] :
                 \A k \in 1..n : f[k] \in SubSeqs(targets(k))},
        pr \in [1..n -> {0, 693}]}

MaxLongRequest == 6

\* n thoughts of prevalence 0, each connected to the one before and the one
\* after it
ChainRequest(n) ==
  LET ids == SubSeq(RequestIds, 1, n)
  IN [k \in 1..n |->
       [id |-> ids[k], text |-> <<ids[k]>>,
        connections |-> (IF k > 1 THEN <<ids[k - 1]>> ELSE <<>>) \o
                        (IF k < n THEN <<ids[k + 1]>> ELSE <<>>),
        prevalence |-> 0]]

\* n thoughts: the first two connected to each other, the second the more
\* prevalent, and the others connected to nothing
ScatteredRequest(n) ==
  LET ids == SubSeq(RequestIds, 1, n)
  IN [k \in 1..n |->
       [id |-> ids[k], text |-> <<ids[k]>>,
        connections |-> IF k = 1 THEN <<ids[2]>> ELSE IF k = 2 THEN <<ids[1]>> ELSE <<>>,
        prevalence |-> IF k = 2 THEN 693 ELSE 0]]

LayoutInit ==
  /\ request \in UNION {Requests(n) : n \in 0..MaxRequestThoughts} \cup
                 {ChainRequest(n) : n \in (MaxRequestThoughts + 1)..MaxLongRequest} \cup
                 {ScatteredRequest(n) : n \in (MaxRequestThoughts + 1)..MaxLongRequest}
  /\ response = NotServed
  /\ textA = <<>> /\ textB = <<>> /\ applied = NotApplied
  /\ thoughts = <<>> /\ mergeThreshold = 20 /\ nodes = <<>>
  /\ stage = "none" /\ previous = NoPrevious
  /\ UseStateDefaults
  /\ ServiceIdle
  /\ consoleErrors = 0
  /\ NoDocuments

\* router.post('/thoughts/organize'): res.json(organized)
ServeOrganize ==
  /\ ~response.served
  /\ \E seed \in Seeds :
       response' = [served |-> TRUE, body |-> organizeThoughtsWithAI(request, seed)]
  /\ UNCHANGED request

LayoutNext ==
  \/ ServeOrganize /\ UNCHANGED <<textVars, viewVars, pipeVars, uiVars, serviceVars, logVars, docVars>>

LayoutSpec == LayoutInit /\ [][LayoutNext]_vars

(***************************************************************************)
(* The narrative and embedding service (geminiService.ts)                  *)
(*                                                                         *)
(* The text of a reply is a sequence of tokens: a word of prose "w", the   *)
(* braces, the comma, and the members "S" ("synthesis": "...") and "Q"     *)
(* ("questions": [...]) of a JSON object.                                  *)
(***************************************************************************)
ReplyTokens == {"w", "{", "}", ",", "S", "Q"}

MaxReplyLen == 4

ReplyTexts == UNION {[1..n -> ReplyTokens] : n \in 0..MaxReplyLen}

\* what a call of the provider throws: an Error with a message, an Error
\* with an empty message, or a value that is no Error
Thrown == {"Error", "EmptyError", "NoError"}

\* error instanceof Error ? error.message : 'Unknown error'
ErrorMessage(thrown) ==
  CASE thrown = "Error" -> "provider failed"
    [] thrown = "EmptyError" -> ""
    [] thrown = "NoError" -> "Unknown error"

\* the replies of model.generateContent(prompt) and result.response.text()
ContentReplies ==
  {[called |-> TRUE, ok |-> TRUE, text |-> t] : t \in ReplyTexts} \cup
  {[called |-> TRUE, ok |-> FALSE, thrown |-> e] : e \in Thrown}

\* response.match(/\{[\s\S]*\}/): from the first opening brace to the last
\* closing brace after it, <<>> for null
jsonMatch(text) ==
  LET opens == {i \in 1..Len(text) : text[i] = "{"}
      closes == {i \in 1..Len(text) : text[i] = "}"}
  IN IF \E i \in opens, j \in closes : i < j
       THEN SubSeq(text, CHOOSE i \in opens : \A k \in opens : i <= k,
                         CHOOSE j \in closes : \A k \in closes : j >= k)
       ELSE <<>>

\* JSON.parse accepts the text: an object of members separated by commas
IsJsonObject(text) ==
  /\ Len(text) >= 2
  /\ text[1] = "{" /\ text[Len(text)] = "}"
  /\ LET inner == SubSeq(text, 2, Len(text) - 1)
     IN \/ inner = <<>>
        \/ /\ Len(inner) % 2 = 1
           /\ \A i \in 1..Len(inner) :
                IF i % 2 = 1 THEN inner[i] \in {"S", "Q"} ELSE inner[i] = ","

\* JSON.parse(text) of an accepted text, by the members it holds
JsonParse(text) ==
  [synthesis |-> IF \E i \in 1..Len(text) : text[i] = "S" THEN <<"synthesis text">> ELSE <<>>,
   questions |-> IF \E i \in 1..Len(text) : text[i] = "Q" THEN <<"question">> ELSE <<>>]

ApiKeyNotConfigured == "Gemini API key not configured"

\* JSON.parse throws a SyntaxError, which the catch turns into the marker
JsonSyntaxError == "Unexpected token in JSON"

\* generateGeminiSynthesis for one reply of the provider; the prompt built
\* from thoughts, patterns and stats does not enter the result
generateGeminiSynthesis(key, reply) ==
  IF ~key
    THEN [synthesis |-> <<>>, questions |-> <<>>, error |-> ApiKeyNotConfigured]
  ELSE IF ~reply.ok
    THEN [synthesis |-> <<>>, questions |-> <<>>, error |-> ErrorMessage(reply.thrown)]
  ELSE IF jsonMatch(reply.text) # <<>>
    THEN IF IsJsonObject(jsonMatch(reply.text))
           THEN [synthesis |-> JsonParse(jsonMatch(reply.text)).synthesis,
                 questions |-> JsonParse(jsonMatch(reply.text)).questions]
           ELSE [synthesis |-> <<>>, questions |-> <<>>, error |-> JsonSyntaxError]
  ELSE [synthesis |-> reply.text, questions |-> <<>>]

\* no call of the service has resolved or been rejected yet
NoCallYet == synthesisResult = NotCalled /\ embeddingsResult = NotCalled

ServiceInit ==
  /\ apiKey \in BOOLEAN
  /\ contentReply = NotCalled /\ synthesisResult = NotCalled
  /\ embedThoughts = <<>> /\ embedReplies = <<>> /\ embeddingsResult = NotCalled
  /\ textA = <<>> /\ textB = <<>> /\ applied = NotApplied
  /\ thoughts = <<>> /\ mergeThreshold = 20 /\ nodes = <<>>
  /\ stage = "none" /\ previous = NoPrevious
  /\ request = <<>> /\ response = NotServed
  /\ UseStateDefaults
  /\ consoleErrors = 0
  /\ NoDocuments

\* a call of generateGeminiSynthesis, to its resolution
GenerateGeminiSynthesis ==
  /\ NoCallYet
  /\ \E reply \in ContentReplies :
       /\ contentReply' = IF apiKey THEN reply ELSE NotCalled
       /\ synthesisResult' = [called |-> TRUE, settled |-> "resolved",
                              value |-> generateGeminiSynthesis(apiKey, reply)]
  /\ UNCHANGED <<apiKey, embedThoughts, embedReplies, embeddingsResult>>

\* the thoughts handed to getThoughtEmbeddings: three with words, one with
\* an empty text and one with a blank text
EmbedCatalog ==
  "e1" :> <<"h", "i", "k", "e", " ", "t", "r", "a", "i", "l">>
  @@ "e2" :> <<"H", "i", "k", "e">>
  @@ "e5" :> <<"t", "r", "a", "i", "l">>
  @@ "e3" :> <<>>
  @@ "e4" :> <<" ">>

MaxEmbedThoughts == 3

\* result.embedding.values: vectors of two dimensions, an empty vector and
\* a vector of another length
EmbeddingValues == {<<1, 0>>, <<1, 1>>, <<0, 1>>, <<>>, <<1>>}

\* the replies of model.embedContent(thought.text); values may be undefined
EmbedContentReplies ==
  {[ok |-> TRUE, defined |-> TRUE, values |-> v] : v \in EmbeddingValues} \cup
  {[ok |-> TRUE, defined |-> FALSE]} \cup
  {[ok |-> FALSE, thrown |-> e] : e \in Thrown}

\* the floor of the square root
FloorSqrt(n) == CHOOSE r \in 0..n : r * r <= n /\ (r + 1) * (r + 1) > n

DotProduct(vec1, vec2) == SumSeq([i \in 1..Len(vec1) |-> vec1[i] * vec2[i]])

\* cosineSimilarity in thousandths, rounded down; the components are not
\* negative
cosineSimilarity(vec1, vec2) ==
  IF Len(vec1) # Len(vec2) THEN 0
  ELSE LET magnitude2 == DotProduct(vec1, vec1) * DotProduct(vec2, vec2)
       IN IF magnitude2 = 0 THEN 0
          ELSE FloorSqrt((1000000 * DotProduct(vec1, vec2) * DotProduct(vec1, vec2))
                         \div magnitude2)

\* similarity >= (1 - eps), eps in hundredths, compared exactly
AtLeastSimilar(vec1, vec2, eps) ==
  /\ Len(vec1) = Len(vec2)
  /\ DotProduct(vec1, vec1) * DotProduct(vec2, vec2) > 0
  /\ 10000 * DotProduct(vec1, vec2) * DotProduct(vec1, vec2)
       >= (100 - eps) * (100 - eps) * DotProduct(vec1, vec1) * DotProduct(vec2, vec2)

\* regionQuery: the ids of the other points similar enough, in point order
regionQuery(points, pointId, eps) ==
  LET point == points[CHOOSE i \in 1..Len(points) :
                        /\ points[i].id = pointId
                        /\ \A j \in 1..(i - 1) : points[j].id # pointId]
      near == SelectSeq(points, LAMBDA p :
                /\ p.id # pointId
                /\ AtLeastSimilar(point.embedding, p.embedding, eps))
  IN [i \in 1..Len(near) |-> near[i].id]

RECURSIVE expandQueue(_, _, _, _, _)
\* the while loop of expandCluster on its queue; st holds visited, clustered
\* and the cluster
expandQueue(points, eps, minPts, queue, st) ==
  IF queue = <<>> THEN st
  ELSE LET currentId == Head(queue)
           fresh == currentId \notin st.visited
           visited == st.visited \cup {currentId}
           currentNeighbors == regionQuery(points, currentId, eps)
           more == IF fresh /\ Len(currentNeighbors) >= minPts
                     THEN SelectSeq(currentNeighbors, LAMBDA n : n \notin visited)
                     ELSE <<>>
       IN expandQueue(points, eps, minPts, Tail(queue) \o more,
            [visited |-> visited,
             clustered |-> st.clustered \cup {currentId},
             cluster |-> IF currentId \in st.clustered THEN st.cluster
                         ELSE Append(st.cluster, currentId)])

RECURSIVE dbscanFrom(_, _, _, _, _)
\* for (const point of points), from the i-th point on
dbscanFrom(points, eps, minPts, i, st) ==
  IF i > Len(points) THEN [clusters |-> st.clusters, noise |-> st.noise]
  ELSE IF points[i].id \in st.visited THEN dbscanFrom(points, eps, minPts, i + 1, st)
  ELSE LET visited == st.visited \cup {points[i].id}
           neighbors == regionQuery(points, points[i].id, eps)
       IN IF Len(neighbors) < minPts
            THEN dbscanFrom(points, eps, minPts, i + 1,
                   [st EXCEPT !.visited = visited, !.noise = Append(st.noise, points[i].id)])
            ELSE LET grown == expandQueue(points, eps, minPts, neighbors,
                                [visited |-> visited,
                                 clustered |-> st.clustered \cup {points[i].id},
                                 cluster |-> <<points[i].id>>])
                 IN dbscanFrom(points, eps, minPts, i + 1,
                      [visited |-> grown.visited, clustered |-> grown.clustered,
                       clusters |-> Append(st.clusters, grown.cluster),
                       noise |-> st.noise])

dbscan(points, eps, minPts) ==
  dbscanFrom(points, eps, minPts, 1,
             [visited |-> {}, clustered |-> {}, clusters |-> <<>>, noise |-> <<>>])

\* the stop words of generateClusterLabel
labelStopWords ==
  {
    <<"t", "h", "e">>, <<"a">>, <<"a", "n">>, <<"a", "n", "d">>, <<"o", "r">>,
    <<"b", "u", "t">>, <<"i", "n">>, <<"o", "n">>, <<"a", "t">>, <<"t", "o">>,
    <<"f", "o", "r">>, <<"o", "f">>, <<"i", "s">>, <<"a", "r", "e">>,
    <<"w", "a", "s">>, <<"w", "e", "r", "e">>, <<"b", "e">>, <<"b", "e", "e", "n">>,
    <<"h", "a", "v", "e">>, <<"h", "a", "s">>, <<"d", "o">>, <<"d", "o", "e", "s">>,
    <<"t", "h", "i", "s">>, <<"t", "h", "a", "t">>, <<"i", "t">>, <<"i">>,
    <<"y", "o", "u">>, <<"w", "e">>, <<"t", "h", "e", "y">>, <<"m", "y">>,
    <<"y", "o", "u", "r">>, <<"o", "u", "r">>
  }

\* String.prototype.toUpperCase on one character
toUpperCaseChar(c) ==
  IF \E i \in 1..26 : LowerCaseLetters[i] = c
    THEN UpperCaseLetters[CHOOSE i \in 1..26 : LowerCaseLetters[i] = c]
    ELSE c

RelatedThoughts == <<"R", "e", "l", "a", "t", "e", "d", " ", "T", "h", "o", "u", "g", "h", "t", "s">>

RECURSIVE JoinAmpersand(_)
\* words.join(' & ')
JoinAmpersand(words) ==
  IF words = <<>> THEN <<>>
  ELSE IF Len(words) = 1 THEN words[1]
  ELSE words[1] \o <<" ", "&", " ">> \o JoinAmpersand(Tail(words))

\* generateClusterLabel: the three most frequent words longer than three
\* characters, capitalised
generateClusterLabel(texts) ==
  LET words == Flatten([k \in 1..Len(texts) |->
                 SelectSeq(lowerCaseWords(texts[k]),
                           LAMBDA w : Len(w) > 3 /\ w \notin labelStopWords)])
      keys == Distinct(words, <<>>)
      ranked == SortDescending(keys, [i \in 1..Len(keys) |-> CountIn(keys[i], words)])
      top == Slice(ranked, 3)
  IN IF Len(top) = 0 THEN RelatedThoughts
     ELSE JoinAmpersand([i \in 1..Len(top) |->
            <<toUpperCaseChar(top[i][1])>> \o SubSeq(top[i], 2, Len(top[i]))])

\* !thought.text || thought.text.trim().length === 0
IsBlank(text) == \A i \in 1..Len(text) : IsWhitespace(text[i])

NoEmbeddings == [id \in {} |-> <<>>]

NoSimilarities == [pairKey \in {} |-> 0]

Unclustered == <<"U", "n", "c", "l", "u", "s", "t", "e", "r", "e", "d">>

\* accessing .length of undefined throws a TypeError inside the try
UndefinedLength == "Cannot read properties of undefined (reading 'length')"

\* a variant that answers every call with empty collections and no marker
getThoughtEmbeddingsSilent(key, ths, replies) ==
  [embeddings |-> NoEmbeddings, similarityMatrix |-> NoSimilarities, clusters |-> <<>>]

\* getThoughtEmbeddings for the replies the provider gives, replies[k] to the
\* call for ths[k]
getThoughtEmbeddings(key, ths, replies) ==
  IF ~key
    THEN [embeddings |-> NoEmbeddings, similarityMatrix |-> NoSimilarities,
          clusters |-> <<>>, error |-> ApiKeyNotConfigured]
  ELSE IF Len(ths) = 0
    THEN [embeddings |-> NoEmbeddings, similarityMatrix |-> NoSimilarities, clusters |-> <<>>]
  ELSE
    LET asked == {k \in 1..Len(ths) : ~IsBlank(ths[k].text)}
        failed == {k \in asked : ~replies[k].ok}
        undefinedValues == {k \in asked : replies[k].ok /\ ~replies[k].defined}
    IN IF failed # {}
         THEN [embeddings |-> NoEmbeddings, similarityMatrix |-> NoSimilarities,
               clusters |-> <<>>,
               error |-> ErrorMessage(replies[CHOOSE k \in failed :
                                                \A j \in failed : k <= j].thrown)]
       ELSE IF undefinedValues # {}
         THEN [embeddings |-> NoEmbeddings, similarityMatrix |-> NoSimilarities,
               clusters |-> <<>>, error |-> UndefinedLength]
       ELSE
         LET embeddings == [id \in {ths[k].id : k \in 1..Len(ths)} |->
                              LET k == CHOOSE j \in 1..Len(ths) :
                                         /\ ths[j].id = id
                                         /\ \A m \in (j + 1)..Len(ths) : ths[m].id # id
                              IN IF k \in asked THEN replies[k].values ELSE <<>>]
             keys == Distinct([k \in 1..Len(ths) |-> ths[k].id], <<>>)
             thoughtIds == SelectSeq(keys, LAMBDA id : Len(embeddings[id]) > 0)
             pairs == {<<i, j>> \in (1..Len(thoughtIds)) \X (1..Len(thoughtIds)) : i < j}
             similarityMatrix ==
               [pairKey \in {thoughtIds[pr[1]] \o "-" \o thoughtIds[pr[2]] : pr \in pairs} |->
                  LET pr == CHOOSE q \in pairs :
                              /\ thoughtIds[q[1]] \o "-" \o thoughtIds[q[2]] = pairKey
                              /\ \A o \in pairs :
                                   thoughtIds[o[1]] \o "-" \o thoughtIds[o[2]] = pairKey
                                     => (o[1] < q[1] \/ (o[1] = q[1] /\ o[2] <= q[2]))
                  IN cosineSimilarity(embeddings[thoughtIds[pr[1]]],
                                      embeddings[thoughtIds[pr[2]]])]
             points == [i \in 1..Len(thoughtIds) |->
                          [id |-> thoughtIds[i], embedding |-> embeddings[thoughtIds[i]]]]
             found == dbscan(points, 30, 2)
             labelled ==
               [c \in 1..Len(found.clusters) |->
                  [id |-> c - 1,
                   thoughtIds |-> found.clusters[c],
                   label |-> generateClusterLabel(
                     SelectSeq([m \in 1..Len(found.clusters[c]) |->
                                  FindThought(ths, found.clusters[c][m]).text],
                               LAMBDA t : Len(t) > 0))]]
         IN [embeddings |-> embeddings,
             similarityMatrix |-> similarityMatrix,
             clusters |-> IF Len(found.noise) > 0
                            THEN Append(labelled, [id |-> Len(labelled),
                                                   thoughtIds |-> found.noise,
                                                   label |-> Unclustered])
                            ELSE labelled]

EmbedThoughtLists == ThoughtLists(EmbedCatalog, MaxEmbedThoughts)

\* a call of getThoughtEmbeddings, to its resolution
GetThoughtEmbeddings ==
  /\ NoCallYet
  /\ \E ths \in EmbedThoughtLists :
       \E replies \in [1..Len(ths) -> EmbedContentReplies] :
         /\ embedThoughts' = ths
         /\ embedReplies' = replies
         /\ embeddingsResult' = [called |-> TRUE, settled |-> "resolved",
                                 value |-> getThoughtEmbeddings(apiKey, ths, replies)]
  /\ UNCHANGED <<apiKey, contentReply, synthesisResult>>

ServiceNext ==
  \/ GenerateGeminiSynthesis /\ UNCHANGED <<textVars, viewVars, pipeVars, layoutVars, uiVars, logVars, docVars>>
  \/ GetThoughtEmbeddings /\ UNCHANGED <<textVars, viewVars, pipeVars, layoutVars, uiVars, logVars, docVars>>

ServiceSpec == ServiceInit /\ [][ServiceNext]_vars

(***************************************************************************)
(* The documents of /api/documents (routes/documents.ts, authMiddleware    *)
(* and ensureTodayDocument).  A document is kept by its _id, userId, name  *)
(* and the day of createdAt; every request falls on the same day.          *)
(***************************************************************************)
Users == {"u1", "u2"}

\* a request whose session holds no userId
NoSession == "nobody"

MaxDocuments == 2

MaxListings == 2

\* today.toLocaleDateString('en-US', ...) of the day of the requests
TodayTitle == "Sunday, November 1, 2026"

\* the schema default of name
Untitled == "Untitled"

\* the request bodies: no field, a name, or a name and a userId
Bodies ==
  {[name \in {} |-> ""]} \cup {[name |-> "note"]} \cup
  {[name |-> "note", userId |-> u] : u \in Users}

\* the positions of the documents a filter of _id and userId matches
Matching(docs, id, userId) ==
  {k \in 1..Len(docs) : docs[k].id = id /\ docs[k].userId = userId}

\* the positions of the documents of a user created today
CreatedToday(docs, userId) ==
  {k \in 1..Len(docs) : docs[k].userId = userId /\ docs[k].createdAt = "today"}

\* the document with the fields of an update body set
Updated(doc, body) ==
  [doc EXCEPT !.name = IF "name" \in DOMAIN body THEN body.name ELSE doc.name,
              !.userId = IF "userId" \in DOMAIN body THEN body.userId ELSE doc.userId]

\* the sequence without its k-th element
Without(q, k) == SubSeq(q, 1, k - 1) \o SubSeq(q, k + 1, Len(q))

\* authMiddleware: 401 for a session without userId
Unauthenticated ==
  /\ \E method \in {"GET /", "GET /:id", "POST /", "PUT /:id", "DELETE /:id"} :
       served' = [answered |-> TRUE, user |-> NoSession, method |-> method,
                  status |-> 401, touched |-> {}]
  /\ UNCHANGED <<documents, nextDocumentId, listing>>

\* router.get('/:id')
GetDocument ==
  /\ \E user \in Users, id \in 1..MaxDocuments :
       LET found == Matching(documents, id, user)
       IN served' = [answered |-> TRUE, user |-> user, method |-> "GET /:id",
                     status |-> IF found = {} THEN 404 ELSE 200,
                     touched |-> {documents[k].id : k \in found}]
  /\ UNCHANGED <<documents, nextDocumentId, listing>>

\* router.post('/'): new DocumentModel({...req.body, userId: req.userId})
PostDocument ==
  /\ nextDocumentId <= MaxDocuments
  /\ \E user \in Users, body \in Bodies :
       /\ documents' = Append(documents,
            [id |-> nextDocumentId,
             userId |-> user,
             name |-> IF "name" \in DOMAIN body THEN body.name ELSE Untitled,
             createdAt |-> "today"])
       /\ served' = [answered |-> TRUE, user |-> user, method |-> "POST /",
                     status |-> 201, touched |-> {nextDocumentId}]
  /\ nextDocumentId' = nextDocumentId + 1
  /\ UNCHANGED listing

\* router.put('/:id'): findOneAndUpdate({_id, userId: req.userId}, req.body)
PutDocument ==
  /\ \E user \in Users, id \in 1..MaxDocuments, body \in Bodies :
       LET found == Matching(documents, id, user)
       IN /\ documents' = [k \in 1..Len(documents) |->
                             IF k \in found THEN Updated(documents[k], body)
                             ELSE documents[k]]
          /\ served' = [answered |-> TRUE, user |-> user, method |-> "PUT /:id",
                        status |-> IF found = {} THEN 404 ELSE 200,
                        touched |-> {documents[k].id : k \in found}]
  /\ UNCHANGED <<nextDocumentId, listing>>

\* router.delete('/:id'): findOneAndDelete({_id, userId: req.userId})
DeleteDocument ==
  /\ \E user \in Users, id \in 1..MaxDocuments :
       LET found == Matching(documents, id, user)
       IN /\ documents' = IF found = {} THEN documents
                          ELSE Without(documents, CHOOSE k \in found : TRUE)
          /\ served' = [answered |-> TRUE, user |-> user, method |-> "DELETE /:id",
                        status |-> IF found = {} THEN 404 ELSE 200,
                        touched |-> {documents[k].id : k \in found}]
  /\ UNCHANGED <<nextDocumentId, listing>>

\* router.get('/') up to the first await of ensureTodayDocument
StartListing ==
  /\ Len(listing) < MaxListings
  /\ \E user \in Users : listing' = Append(listing, [user |-> user, at |-> "findOne"])
  /\ UNCHANGED <<documents, nextDocumentId, served>>

\* ensureTodayDocument: DocumentModel.findOne resolves
FindTodayDocument ==
  /\ \E r \in 1..Len(listing) :
       /\ listing[r].at = "findOne"
       /\ listing' = [listing EXCEPT ![r].at =
                        IF CreatedToday(documents, listing[r].user) = {}
                          THEN "create" ELSE "find"]
  /\ UNCHANGED <<documents, nextDocumentId, served>>

\* ensureTodayDocument: DocumentModel.create resolves
CreateTodayDocument ==
  /\ nextDocumentId <= MaxDocuments
  /\ \E r \in 1..Len(listing) :
       /\ listing[r].at = "create"
       /\ documents' = Append(documents,
                              [id |-> nextDocumentId, userId |-> listing[r].user,
                               name |-> TodayTitle, createdAt |-> "today"])
       /\ listing' = [listing EXCEPT ![r].at = "find"]
  /\ nextDocumentId' = nextDocumentId + 1
  /\ UNCHANGED served

\* router.get('/'): DocumentModel.find({ userId }) resolves and res.json
ListDocuments ==
  /\ \E r \in 1..Len(listing) :
       /\ listing[r].at = "find"
       /\ served' = [answered |-> TRUE, user |-> listing[r].user, method |-> "GET /",
                     status |-> 200,
                     touched |-> {documents[k].id :
                                    k \in {j \in 1..Len(documents) :
                                             documents[j].userId = listing[r].user}}]
       /\ listing' = Without(listing, r)
  /\ UNCHANGED <<documents, nextDocumentId>>

\* the server started on a collection without documents
DocumentInit ==
  /\ NoDocuments
  /\ textA = <<>> /\ textB = <<>> /\ applied = NotApplied
  /\ thoughts = <<>> /\ mergeThreshold = 20 /\ nodes = <<>>
  /\ stage = "none" /\ previous = NoPrevious
  /\ request = <<>> /\ response = NotServed
  /\ UseStateDefaults
  /\ ServiceIdle
  /\ consoleErrors = 0

\* every request of the routes
DocumentNext ==
  \/ Unauthenticated /\ UNCHANGED <<textVars, viewVars, pipeVars, layoutVars, uiVars, serviceVars, logVars>>
  \/ GetDocument /\ UNCHANGED <<textVars, viewVars, pipeVars, layoutVars, uiVars, serviceVars, logVars>>
  \/ PostDocument /\ UNCHANGED <<textVars, viewVars, pipeVars, layoutVars, uiVars, serviceVars, logVars>>
  \/ PutDocument /\ UNCHANGED <<textVars, viewVars, pipeVars, layoutVars, uiVars, serviceVars, logVars>>
  \/ DeleteDocument /\ UNCHANGED <<textVars, viewVars, pipeVars, layoutVars, uiVars, serviceVars, logVars>>
  \/ StartListing /\ UNCHANGED <<textVars, viewVars, pipeVars, layoutVars, uiVars, serviceVars, logVars>>
  \/ FindTodayDocument /\ UNCHANGED <<textVars, viewVars, pipeVars, layoutVars, uiVars, serviceVars, logVars>>
  \/ CreateTodayDocument /\ UNCHANGED <<textVars, viewVars, pipeVars, layoutVars, uiVars, serviceVars, logVars>>
  \/ ListDocuments /\ UNCHANGED <<textVars, viewVars, pipeVars, layoutVars, uiVars, serviceVars, logVars>>

DocumentSpec == DocumentInit /\ [][DocumentNext]_vars

\* concurrent GET /api/documents requests and nothing else
ListingNext ==
  \/ StartListing /\ UNCHANGED <<textVars, viewVars, pipeVars, layoutVars, uiVars, serviceVars, logVars>>
  \/ FindTodayDocument /\ UNCHANGED <<textVars, viewVars, pipeVars, layoutVars, uiVars, serviceVars, logVars>>
  \/ CreateTodayDocument /\ UNCHANGED <<textVars, viewVars, pipeVars, layoutVars, uiVars, serviceVars, logVars>>
  \/ ListDocuments /\ UNCHANGED <<textVars, viewVars, pipeVars, layoutVars, uiVars, serviceVars, logVars>>

ListingSpec == DocumentInit /\ [][ListingNext]_vars

(***************************************************************************)
(* Properties of the text functions                                        *)
(***************************************************************************)
\* C2: calculateSimilarity is symmetric, gives 1 for a non-empty text with
\* itself, gives 0 when either text is empty, and lies in [0, 1].
C2_SimilaritySymmetricReflexiveBounded ==
  applied.op = "similarity" =>
    /\ applied.ab.num * applied.ba.den = applied.ba.num * applied.ab.den
    /\ textA # <<>> => applied.aa.num = applied.aa.den
    /\ (textA = <<>> \/ textB = <<>>) => applied.ab.num = 0
    /\ applied.ab.den > 0 /\ applied.aa.den > 0 /\ applied.ba.den > 0
    /\ 0 <= applied.ab.num /\ applied.ab.num <= applied.ab.den

C2_Witness ==
  /\ applied.op = "similarity"
  /\ textA # textB
  /\ Len(textA) # Len(textB)
  /\ 0 < applied.ab.num /\ applied.ab.num < applied.ab.den

OnlyStopwordsOrShort(text) ==
  \A w \in SeqToSet(Tokens(text)) : Len(w) <= 2 \/ w \in stopWords

\* C9: a text made only of stopwords and tokens of length <= 2 has
\* prevalence exactly 0, whatever the word frequencies of the batch.
C9_StopwordTextHasZeroPrevalence ==
  (applied.op = "prevalence" /\ OnlyStopwordsOrShort(textA)) => applied.value = 0

(***************************************************************************)
(* Properties of the recomputation effect                                  *)
(***************************************************************************)
TokenSet(text) == SeqToSet(Tokens(text))

\* the token-set Jaccard index of two texts is above 1/5
JaccardAboveFifth(text1, text2) ==
  /\ text1 # <<>> /\ text2 # <<>>
  /\ 5 * Cardinality(TokenSet(text1) \cap TokenSet(text2))
       > Cardinality(TokenSet(text1) \cup TokenSet(text2))

ThoughtIds == [k \in 1..Len(thoughts) |-> thoughts[k].id]

\* C1: after the connections are found, thought j is in the connections of
\* thought i exactly when i # j and their Jaccard similarity is above 0.2;
\* of the three example thoughts the first two are connected to each other
\* and the third has no connection.
C1_ConnectionsAreSimilarPairs ==
  stage = "connected" =>
    /\ Len(nodes) = Len(thoughts)
    /\ \A i, j \in 1..Len(thoughts) :
         (thoughts[j].id \in SeqToSet(nodes[i].connections))
           <=> (i # j /\ JaccardAboveFifth(thoughts[i].text, thoughts[j].text))
    /\ ThoughtIds = <<"h1", "h2", "h3">> =>
         /\ nodes[1].connections = <<"h2">>
         /\ nodes[2].connections = <<"h1">>
         /\ nodes[3].connections = <<>>

C1_Witness ==
  /\ stage = "connected"
  /\ ThoughtIds = <<"h1", "h2", "h3">>
  /\ nodes[1].connections = <<"h2">>
  /\ nodes[3].connections = <<>>

\* how many times the output nodes stand for a thought id
Representations(ns, id) ==
  SumSeq([n \in 1..Len(ns) |->
    IF ns[n].mergedIds # <<>>
      THEN Cardinality({m \in 1..Len(ns[n].mergedIds) : ns[n].mergedIds[m] = id})
      ELSE IF ns[n].id = id THEN 1 ELSE 0])

\* C3: the merge pass partitions the thoughts: every thought id is the id of
\* one standalone node or a member of one merged node, and of nothing else.
C3_MergeIsPartition ==
  stage \in {"merged", "scaled"} =>
    /\ \A k \in 1..Len(thoughts) : Representations(nodes, thoughts[k].id) = 1
    /\ \A n \in 1..Len(nodes) : MemberIds(nodes[n]) \subseteq SeqToSet(ThoughtIds)

C3_Witness ==
  /\ stage = "merged"
  /\ \E n \in 1..Len(nodes) : Len(nodes[n].mergedIds) >= 3
  /\ \E n \in 1..Len(nodes) : nodes[n].mergedIds = <<>>
  /\ \E n \in 2..Len(nodes) : Len(nodes[n].mergedIds) >= 2

LoweredThreshold ==
  stage = "scaled" /\ previous.threshold # 0 /\ mergeThreshold < previous.threshold

\* C5 as claimed: a lower merge threshold never yields more output nodes
\* than a higher one on the same thought list.
C5_LowerThresholdNeverMoreNodes ==
  LoweredThreshold => Len(nodes) <= previous.count

\* C5 as amended: a lower merge threshold never shrinks the group of the
\* first thought, and when it merges nothing the higher one merged nothing.
C5_LowerThresholdGrowsFirstGroup ==
  LoweredThreshold =>
    /\ previous.first \subseteq (IF nodes = <<>> THEN {} ELSE MemberIds(nodes[1]))
    /\ Len(nodes) = Len(thoughts) => previous.count = Len(thoughts)

C5_Witness ==
  /\ LoweredThreshold
  /\ Len(nodes) > previous.count
  /\ previous.first # MemberIds(nodes[1])

(***************************************************************************)
(* Properties of the layout engine                                         *)
(***************************************************************************)
SameCluster(a, b) ==
  \E n \in 1..Len(response.body.clusters) :
    {a, b} \subseteq SeqToSet(response.body.clusters[n].thoughtIds)

\* C6: the clusters of the layout are the connected components of the
\* connections read as undirected: two thoughts of the request, one of which
\* lists the other in its connections, are in the same cluster.
C6_ConnectedThoughtsShareCluster ==
  response.served =>
    \A i, j \in 1..Len(request) :
      (request[j].id \in SeqToSet(request[i].connections)
         \/ request[i].id \in SeqToSet(request[j].connections))
        => SameCluster(request[i].id, request[j].id)

(***************************************************************************)
(* Properties of the view                                                  *)
(***************************************************************************)
\* the ids of the thoughts the page can hand to the view
OriginalThoughtIds == {ViewCatalog[i].id : i \in 1..Len(ViewCatalog)}

\* C4: in every state of the view every id in a node's mergedIds is the id
\* of an original thought, never the id of a synthesized group node.
C4_MergedIdsAreThoughtIds ==
  \A k \in 1..Len(nodes) :
    SeqToSet(nodes[k].mergedIds) \subseteq OriginalThoughtIds

\* C7: an organize response computed for nodes that have been rebuilt since
\* is discarded: it sets no target, no clusters, no strong connections and
\* not the organized flag.
C7_StaleResponseDiscarded ==
  [][(OrganizeSucceed /\ inFlight[1].stale)
       => /\ nodes' = nodes
          /\ clusters' = clusters
          /\ strongConnections' = strongConnections
          /\ isOrganized' = isOrganized]_vars

ZeroThoughtsFallbacks(expectedSuggestions) ==
  thoughts = <<>> =>
    /\ nodes = <<>>
    /\ synthesis(nodes, wordFrequencyEntries(thoughts)) = << <<StartAddingThoughts>> >>
    /\ patterns(nodes, wordFrequencyEntries(thoughts)) = <<>>
    /\ suggestions(nodes, wordFrequencyEntries(thoughts)) \in expectedSuggestions
    /\ aiQuestions = <<>>
    /\ \A seed \in Seeds : organizeThoughtsWithAI(thoughtData(nodes), seed) = EmptyLayout

\* C8 as stated: for zero input thoughts the synthesis is the non-empty
\* fallback, patterns and questions are empty, the suggestions are empty or
\* exactly the default encouragement, and the layout is empty.
C8_ZeroThoughtsDefaultSuggestion ==
  ZeroThoughtsFallbacks({<<>>, << <<KeepAdding>> >>})

\* C8 amended: for zero input thoughts the synthesis is the non-empty
\* fallback, patterns and questions are empty, the suggestions are exactly
\* the one suggestion of the node-count check (add more thoughts), and the
\* layout is empty.
C8_ZeroThoughtsAddMoreSuggestion ==
  ZeroThoughtsFallbacks({<< <<AddMoreThoughts>> >>})

\* the page handed over an empty list after a bubble had been hidden, and the
\* effect ran on it
C8_Witness ==
  /\ thoughts = <<>>
  /\ hiddenBubbles # {}
  /\ nodes = <<>>
  /\ suggestions(nodes, wordFrequencyEntries(thoughts)) = << <<AddMoreThoughts>> >>

\* the number of other nodes closer than the sum of the two base radii
TouchedBy(ns, k) ==
  Cardinality({j \in 1..Len(ns) :
    /\ j # k
    /\ LET dx == ns[k].x - ns[j].x
           dy == ns[k].y - ns[j].y
           reach == (ns[k].baseRadius + ns[j].baseRadius) \div 20
       IN dx * dx + dy * dy < reach * reach})

\* touchCount and radius = baseRadius * (1 + touchCount * num / den)
Sized(ns, num, den) ==
  \A k \in 1..Len(ns) :
    /\ ns[k].baseRadius > 0
    /\ ns[k].touchCount = TouchedBy(ns, k)
    /\ ns[k].radius * den = ns[k].baseRadius * (den + num * ns[k].touchCount)

\* C10: after the density recomputation of a construction every node's
\* touchCount is the number of other nodes nearer than the sum of the two
\* base radii and its radius is baseRadius * (1 + 0.25 * touchCount); after
\* that of an animation tick the same holds with 0.15.
C10_DensityAfterRecomputation ==
  [][/\ (SetThoughts \/ SetMergeThreshold) => Sized(nodes', 1, 4)
     /\ Tick => Sized(nodes', 3, 20)]_vars

\* a tick has sized a node that touches another and a node that touches none
C10_Witness ==
  /\ Sized(nodes, 3, 20)
  /\ \E k \in 1..Len(nodes) : nodes[k].touchCount > 0
  /\ \E k \in 1..Len(nodes) :
       nodes[k].touchCount = 0 /\ nodes[k].radius = nodes[k].baseRadius

\* the nodes one more animation frame would leave
NextFrame(ns) == densityUpdatedNodes([k \in 1..Len(ns) |-> movedNode(ns[k])])

SamePositions(ns, ms) ==
  /\ Len(ns) = Len(ms)
  /\ \A k \in 1..Len(ns) : ns[k].x = ms[k].x /\ ns[k].y = ms[k].y

\* C11: an animation tick changes no node's baseRadius, and a tick that moves
\* no node leaves every touchCount and radius as the previous tick left them.
C11_TickKeepsBaseRadiusAndSettles ==
  [][Tick =>
       /\ Len(nodes') = Len(nodes)
       /\ \A k \in 1..Len(nodes) : nodes'[k].baseRadius = nodes[k].baseRadius
       /\ SamePositions(NextFrame(nodes'), nodes') =>
            \A k \in 1..Len(nodes) :
              /\ NextFrame(nodes')[k].touchCount = nodes'[k].touchCount
              /\ NextFrame(nodes')[k].radius = nodes'[k].radius]_vars

\* a tick has enlarged a node that touches another, and the next tick moves
\* nothing
C11_Witness ==
  /\ Sized(nodes, 3, 20)
  /\ \E k \in 1..Len(nodes) : nodes[k].touchCount > 0 /\ nodes[k].radius > nodes[k].baseRadius
  /\ SamePositions(NextFrame(nodes), nodes)
  /\ NextFrame(nodes) = nodes

\* Math.max(97.5, ...): the minimum bubble radius, in 1/80 pixel
minimumRadius == 20 * 390

\* C12: in every state of the view every node's radius is at least the
\* minimum bubble radius 97.5.
C12_RadiusAtLeastMinimum ==
  \A k \in 1..Len(nodes) : nodes[k].radius >= minimumRadius

\* a plain node of prevalence 0 sits at the minimum next to a manual group's
\* parent, after an animation tick
C12_Witness ==
  /\ manualGroups # <<>>
  /\ Sized(nodes, 3, 20)
  /\ \E k \in 1..Len(nodes) : ~nodes[k].isMerged /\ nodes[k].radius = minimumRadius
  /\ \E k \in 1..Len(nodes) : nodes[k].isMerged

(***************************************************************************)
(* Properties of the layout engine                                         *)
(***************************************************************************)
\* thought k of the request nominates id: id is among its first three
\* connections and it has three or more
Nominates(k, id) ==
  /\ Len(request[k].connections) >= 3
  /\ \E c \in 1..3 : request[k].connections[c] = id

\* C13: the strongConnections of a response hold no unordered pair twice, and
\* every pair [a, b] in it has b among the first three connections of a
\* thought a that has at least three connections.
C13_StrongConnectionsDistinctNominated ==
  response.served =>
    LET strong == response.body.strongConnections
    IN /\ \A m, n \in 1..Len(strong) :
            m # n => {strong[m][1], strong[m][2]} # {strong[n][1], strong[n][2]}
       /\ \A m \in 1..Len(strong) :
            \E k \in 1..Len(request) :
              request[k].id = strong[m][1] /\ Nominates(k, strong[m][2])

\* a response to a request in which two thoughts nominate each other
C13_Witness ==
  /\ response.served
  /\ \E j, k \in 1..Len(request) :
       /\ j # k
       /\ Nominates(j, request[k].id)
       /\ Nominates(k, request[j].id)
       /\ \E m \in 1..Len(response.body.strongConnections) :
            response.body.strongConnections[m] = <<request[j].id, request[k].id>>

\* the largest distance a strategy draws, near a neighbour or on the ring
LargestDistance(count) ==
  LET bands == StrategyBands(count)
  IN Max(bands.nearMin + bands.nearRange, bands.ringMin + bands.ringRange)

\* the positioned thoughts of a cluster that lie farther from its anchor than
\* the largest distance of the strategy
BeyondBand(body, c) ==
  {id \in SeqToSet(body.clusters[c].thoughtIds) \cap DOMAIN body.positions :
     LET dx == body.positions[id][1] - body.clusters[c].centerX
         dy == body.positions[id][2] - body.clusters[c].centerY
         reach == LargestDistance(Len(body.clusters))
     IN dx * dx + dy * dy > reach * reach}

\* C14: for every jitter outcome no thought of a response lies farther from
\* the anchor of its cluster than the largest placement distance of the
\* strategy, thoughts placed next to already placed neighbours included.
C14_WithinStrategyBand ==
  response.served =>
    \A c \in 1..Len(response.body.clusters) : BeyondBand(response.body, c) = {}

\* C15: when the layout finds exactly one cluster, every position of the
\* response lies within the padding of the canvas, whatever the jitter.
C15_SingleClusterWithinPadding ==
  (response.served /\ Len(response.body.clusters) = 1) =>
    \A id \in DOMAIN response.body.positions :
      /\ padding <= response.body.positions[id][1]
      /\ response.body.positions[id][1] <= canvasWidth - padding
      /\ padding <= response.body.positions[id][2]
      /\ response.body.positions[id][2] <= canvasHeight - padding

\* one cluster, and the clamp has held a thought of a chain at the lower
\* edge of the padded canvas
C15_Witness ==
  /\ response.served
  /\ Len(response.body.clusters) = 1
  /\ Len(request) = MaxLongRequest
  /\ \E id \in DOMAIN response.body.positions :
       response.body.positions[id][2] = canvasHeight - padding

\* the anchor of cluster idx (from 0) of count clusters: the canvas centre,
\* 25% and 75% of the width at mid height, the four quadrant points at 30%
\* and 70%, or the centre of a cell of a grid of ceil(sqrt(count)) columns
ExpectedAnchor(count, idx) ==
  CASE count = 1 -> <<4 * 1200, 4 * 800>>
    [] count = 2 -> <<<<4 * 600, 4 * 800>>, <<4 * 1800, 4 * 800>>>>[idx + 1]
    [] count \in {3, 4} ->
         <<<<4 * 720, 4 * 480>>, <<4 * 1680, 4 * 480>>,
           <<4 * 720, 4 * 1120>>, <<4 * 1680, 4 * 1120>>>>[idx + 1]
    [] OTHER ->
         LET cols == CHOOSE c \in 1..count : c * c >= count /\ (c - 1) * (c - 1) < count
             rows == CHOOSE r \in 1..count : r * cols >= count /\ (r - 1) * cols < count
         IN <<4 * 120 + ((4 * 2160) * (2 * (idx % cols) + 1)) \div (2 * cols),
              4 * 120 + ((4 * 1360) * (2 * (idx \div cols) + 1)) \div (2 * rows)>>

\* the index in the request of the most prevalent thought of a cluster, the
\* earliest of the request among equals
MostPrevalent(ids) ==
  CHOOSE k \in 1..Len(request) :
    /\ request[k].id \in ids
    /\ \A j \in 1..Len(request) :
         request[j].id \in ids =>
           \/ request[j].prevalence < request[k].prevalence
           \/ request[j].prevalence = request[k].prevalence /\ j >= k

\* C16: the anchors depend on the number of clusters only; in every strategy
\* the most prevalent thought of a cluster is exactly at the cluster's anchor,
\* the cluster's centerX and centerY are that anchor, and distinct clusters
\* have distinct anchors.
C16_AnchorsByClusterCount ==
  response.served =>
    LET found == response.body.clusters
        count == Len(found)
    IN /\ \A c \in 1..count :
            /\ <<found[c].centerX, found[c].centerY>> = ExpectedAnchor(count, c - 1)
            /\ response.body.positions[request[MostPrevalent(SeqToSet(found[c].thoughtIds))].id]
                 = ExpectedAnchor(count, c - 1)
       /\ \A c, d \in 1..count :
            c # d => ExpectedAnchor(count, c - 1) # ExpectedAnchor(count, d - 1)

\* a response with five clusters on the grid, one of them of two thoughts
\* whose second is the more prevalent
C16_Witness ==
  /\ response.served
  /\ Len(response.body.clusters) = 5
  /\ \E c \in 1..Len(response.body.clusters) :
       /\ Len(response.body.clusters[c].thoughtIds) = 2
       /\ response.body.positions[response.body.clusters[c].thoughtIds[2]] =
            <<response.body.clusters[c].centerX, response.body.clusters[c].centerY>>

(***************************************************************************)
(* Properties of the questions                                             *)
(***************************************************************************)
\* the nodes are the ones the effect built last and handed to
\* generateAIQuestions
FreshlyBuilt ==
  \E layout \in ViewLayouts : nodes = densityScaledNodes(thoughts, mergeThreshold, layout)

\* the id of the thought a node stands for first
FirstThoughtOf(node) ==
  IF Len(node.mergedIds) > 0 THEN node.mergedIds[1] ELSE node.id

\* C17: when the nodes handed to the question generator hold a node with no
\* connection, merged or not, the questions hold the 'stands alone' question
\* of the first such node, unless five questions came before it.
C17_IsolatedNodeHasQuestion ==
  (FreshlyBuilt /\ \E k \in 1..Len(nodes) : Len(nodes[k].connections) = 0) =>
    LET first == CHOOSE k \in 1..Len(nodes) :
                   /\ Len(nodes[k].connections) = 0
                   /\ \A j \in 1..(k - 1) : Len(nodes[j].connections) # 0
    IN \/ Len(aiQuestions) = 5
       \/ \E q \in 1..Len(aiQuestions) :
            /\ aiQuestions[q].question[1] = "stands alone"
            /\ HasThought(thoughts, FirstThoughtOf(nodes[first]))
            /\ aiQuestions[q].question[2] =
                 Slice(FindThought(thoughts, FirstThoughtOf(nodes[first])).text, 50)

\* the place of a question in the order of generation: the questions of the
\* merge groups, then the one of the isolated node, then the bridging one
QuestionRank(q) ==
  CASE q.question[1] = "stands alone" -> 2
    [] q.question[1] = "Your thinking has two major threads" -> 3
    [] OTHER -> 1

\* the index of the first node whose mergedIds begin like the related
\* thoughts of a question
NodeOf(q) ==
  CHOOSE k \in 1..Len(nodes) :
    /\ Len(nodes[k].mergedIds) >= Len(q.relatedThoughts)
    /\ SubSeq(nodes[k].mergedIds, 1, Len(q.relatedThoughts)) = q.relatedThoughts
    /\ \A j \in 1..(k - 1) :
         \/ Len(nodes[j].mergedIds) < Len(q.relatedThoughts)
         \/ SubSeq(nodes[j].mergedIds, 1, Len(q.relatedThoughts)) # q.relatedThoughts

\* C18: the question list has at most five entries and is the beginning of
\* the generated sequence: the questions of the merge groups in node order,
\* then the one of the isolated node, then the bridging one.
C18_QuestionsAreFirstFive ==
  stage = "asked" =>
    LET all == generatedQuestions(nodes, thoughts)
    IN /\ Len(aiQuestions) <= 5
       /\ Len(aiQuestions) = Min(5, Len(all))
       /\ \A i \in 1..Len(aiQuestions) : aiQuestions[i] = all[i]
       /\ \A i, j \in 1..Len(aiQuestions) :
            i < j =>
              /\ QuestionRank(aiQuestions[i]) <= QuestionRank(aiQuestions[j])
              /\ (QuestionRank(aiQuestions[i]) = 1 /\ QuestionRank(aiQuestions[j]) = 1)
                   => NodeOf(aiQuestions[i]) <= NodeOf(aiQuestions[j])

\* six questions were generated and the bridging one was cut
C18_Witness ==
  /\ stage = "asked"
  /\ Len(generatedQuestions(nodes, thoughts)) = 6
  /\ Len(aiQuestions) = 5
  /\ QuestionRank(aiQuestions[5]) = 2

\* some part of the text is a JSON object
HoldsJsonObject(text) ==
  \E i \in 1..Len(text), j \in 1..Len(text) : i <= j /\ IsJsonObject(SubSeq(text, i, j))

\* C19: when the provider's reply holds no parseable JSON object (plain
\* text, or text with braces but no valid object), generateGeminiSynthesis
\* returns the whole reply as the synthesis, with no questions and no error
\* marker.
C19_UnparseableReplyIsSynthesis ==
  (/\ synthesisResult.called
   /\ apiKey
   /\ contentReply.ok
   /\ ~HoldsJsonObject(contentReply.text))
    => synthesisResult.value = [synthesis |-> contentReply.text, questions |-> <<>>]

\* the thoughts of the call whose text is sent to the provider
AskedThoughts == {k \in 1..Len(embedThoughts) : ~IsBlank(embedThoughts[k].text)}

\* a call to the provider made for the embeddings failed
EmbedCallFailed == \E k \in AskedThoughts : ~embedReplies[k].ok

\* C20: getThoughtEmbeddings and generateGeminiSynthesis always resolve;
\* when the API key is missing or a provider call fails, the result carries
\* an error marker together with empty collections.
C20_FailuresResolveWithMarker ==
  /\ synthesisResult.called =>
       /\ synthesisResult.settled = "resolved"
       /\ (~apiKey \/ ~contentReply.ok) =>
            /\ "error" \in DOMAIN synthesisResult.value
            /\ synthesisResult.value.synthesis = <<>>
            /\ synthesisResult.value.questions = <<>>
  /\ embeddingsResult.called =>
       /\ embeddingsResult.settled = "resolved"
       /\ (~apiKey \/ EmbedCallFailed) =>
            /\ "error" \in DOMAIN embeddingsResult.value
            /\ embeddingsResult.value.embeddings = NoEmbeddings
            /\ embeddingsResult.value.similarityMatrix = NoSimilarities
            /\ embeddingsResult.value.clusters = <<>>

\* the provider embedded the first thought and failed on a later one
C20_Witness ==
  /\ embeddingsResult.called
  /\ apiKey
  /\ Len(embedThoughts) >= 2
  /\ 1 \in AskedThoughts
  /\ embedReplies[1].ok /\ embedReplies[1].defined /\ Len(embedReplies[1].values) > 0
  /\ \E k \in AskedThoughts : k > 1 /\ ~embedReplies[k].ok
  /\ "error" \in DOMAIN embeddingsResult.value

\* the ids of the thoughts of the request
RequestThoughtIds == {request[k].id : k \in 1..Len(request)}

\* the ids in a connections list of the request that are ids of no thought
DanglingIds ==
  UNION {SeqToSet(request[k].connections) : k \in 1..Len(request)} \ RequestThoughtIds

\* C21: an id in a thought's connections that is the id of no thought of the
\* request appears in no returned cluster's thoughtIds, in no pair of
\* strongConnections and as no key of positions.
C21_DanglingIdsSkipped ==
  response.served =>
    \A id \in DanglingIds :
      /\ \A c \in 1..Len(response.body.clusters) :
           id \notin SeqToSet(response.body.clusters[c].thoughtIds)
      /\ \A m \in 1..Len(response.body.strongConnections) :
           /\ response.body.strongConnections[m][1] # id
           /\ response.body.strongConnections[m][2] # id
      /\ id \notin DOMAIN response.body.positions

\* the id of the thought a node was built from: the anchor of its group
AnchorId(node) == IF node.mergedIds # <<>> THEN node.mergedIds[1] ELSE node.id

\* the thought ids the nodes before the n-th stand for
ConsumedBefore(n) == UNION {MemberIds(nodes[m]) : m \in 1..(n - 1)}

\* the similarity of the texts of two thoughts strictly exceeds the merge
\* threshold
AboveMergeThreshold(id1, id2) ==
  LET sim == Similarity(FindThought(thoughts, id1).text, FindThought(thoughts, id2).text)
  IN sim.num * 100 > mergeThreshold * sim.den

\* the position of a thought id in the thought list
ThoughtIndex(id) == CHOOSE k \in 1..Len(thoughts) : thoughts[k].id = id

\* C22: the merge pass is greedy on the first anchor: in input order each
\* thought not yet consumed becomes an anchor, and its group is itself plus
\* exactly the thoughts not yet consumed whose similarity with the anchor
\* strictly exceeds the merge threshold, the anchor first in mergedIds and
\* the others in input order.
C22_GreedyFirstAnchor ==
  stage \in {"merged", "scaled"} =>
    \A n \in 1..Len(nodes) :
      LET anchor == AnchorId(nodes[n])
          free == SeqToSet(ThoughtIds) \ ConsumedBefore(n)
      IN /\ anchor = nodes[n].id
         /\ anchor \in free
         /\ \A id \in free : ThoughtIndex(anchor) <= ThoughtIndex(id)
         /\ MemberIds(nodes[n]) =
              {anchor} \cup {id \in free \ {anchor} : AboveMergeThreshold(anchor, id)}
         /\ nodes[n].mergedIds # <<>> =>
              /\ Len(nodes[n].mergedIds) >= 2
              /\ \A i, j \in 1..Len(nodes[n].mergedIds) :
                   i < j => ThoughtIndex(nodes[n].mergedIds[i])
                              < ThoughtIndex(nodes[n].mergedIds[j])

\* a group with two members that are not similar to each other, and a
\* thought similar to a consumed member that stayed out of its group
C22_Witness ==
  /\ stage = "merged"
  /\ \E n \in 1..Len(nodes) :
       /\ Len(nodes[n].mergedIds) >= 3
       /\ \E i, j \in 2..Len(nodes[n].mergedIds) :
            i # j /\ ~AboveMergeThreshold(nodes[n].mergedIds[i], nodes[n].mergedIds[j])

\* the nodes of the list whose ids are in a set
NodesOf(ns, ids) == {k \in 1..Len(ns) : ns[k].id \in ids}

\* the ids of the other thoughts whose Jaccard similarity with a thought is
\* above 0.2: the connections findConnections gives it
SimilarThoughtIds(ths, id) ==
  {ths[k].id : k \in {j \in 1..Len(ths) :
     /\ ths[j].id # id
     /\ JaccardAboveFifth(FindThought(ths, id).text, ths[j].text)}}

\* C23: the merge pass gives a merged node the union of its members'
\* connections minus the ids of its own members: the node is connected
\* neither to its own id nor to an id in its mergedIds, and the list has no
\* duplicates.
C23_MergedConnectionsAreOutsideUnion ==
  /\ [][(stage = "connected" /\ stage' = "merged") =>
          \A n \in 1..Len(nodes') :
            nodes'[n].isMerged =>
              SeqToSet(nodes'[n].connections) =
                UNION {SeqToSet(nodes[k].connections) :
                         k \in NodesOf(nodes, SeqToSet(nodes'[n].mergedIds))}
                  \ SeqToSet(nodes'[n].mergedIds)]_vars
  /\ [](stage \in {"merged", "scaled"} =>
          \A n \in 1..Len(nodes) :
            nodes[n].isMerged =>
              /\ SeqToSet(nodes[n].connections) =
                   UNION {SimilarThoughtIds(thoughts, id) : id \in SeqToSet(nodes[n].mergedIds)}
                     \ SeqToSet(nodes[n].mergedIds)
              /\ nodes[n].id \notin SeqToSet(nodes[n].connections)
              /\ SeqToSet(nodes[n].connections) \cap SeqToSet(nodes[n].mergedIds) = {}
              /\ \A i, j \in 1..Len(nodes[n].connections) :
                   i # j => nodes[n].connections[i] # nodes[n].connections[j])

\* a merged node still connected to a thought outside its group, two of its
\* members having been connected to each other
C23_Witness ==
  /\ stage = "merged"
  /\ \E n \in 1..Len(nodes) :
       /\ nodes[n].isMerged
       /\ nodes[n].connections # <<>>
       /\ \E i, j \in 1..Len(nodes[n].mergedIds) :
            /\ i # j
            /\ JaccardAboveFifth(FindThought(thoughts, nodes[n].mergedIds[i]).text,
                                 FindThought(thoughts, nodes[n].mergedIds[j]).text)

\* the kinds of the closing suggestion
NextKinds ==
  {"Next: Bridge your standalone ideas to your hubs",
   "Next: Connect isolated thoughts to existing clusters",
   "Next: Explore how the themes relate",
   "Next: Continue adding thoughts to reveal deeper patterns and connections."}

\* the synthesis paragraph of the node set on screen
CurrentSynthesis == synthesis(nodes, wordFrequencyEntries(thoughts))

\* the words that occur at least twice in the thoughts
ThemeWords == {w \in DOMAIN wordFrequency(thoughts) : wordFrequency(thoughts)[w] >= 2}

\* the closing suggestion the priority selects
ExpectedNextKind ==
  LET hubCount == Cardinality({k \in 1..Len(nodes) : Len(nodes[k].connections) >= 3})
      isolatedCount == Cardinality({k \in 1..Len(nodes) : Len(nodes[k].connections) = 0})
      denseCount == Cardinality({k \in 1..Len(nodes) : nodes[k].touchCount >= 3})
  IN IF hubCount >= 2 /\ isolatedCount > 0
       THEN "Next: Bridge your standalone ideas to your hubs"
     ELSE IF denseCount > 0 /\ isolatedCount > 5
       THEN "Next: Connect isolated thoughts to existing clusters"
     ELSE IF Cardinality(ThemeWords) >= 3
       THEN "Next: Explore how the themes relate"
     ELSE "Next: Continue adding thoughts to reveal deeper patterns and connections."

\* C24: for a non-empty node set the synthesis ends with exactly one
\* "Next:" suggestion, chosen by the priority: two hubs or more and an
\* isolated node; else a dense cluster and more than five isolated nodes;
\* else three theme words or more; else the generic suggestion.
C24_ClosingSuggestionByPriority ==
  (stage \in {"scaled", "asked"} /\ nodes # <<>>) =>
    LET sentences == CurrentSynthesis
    IN /\ sentences[Len(sentences)][1] = ExpectedNextKind
       /\ \A k \in 1..(Len(sentences) - 1) : sentences[k][1] \notin NextKinds

\* the hub suggestion chosen although there are three theme words
C24_Witness ==
  /\ stage = "scaled"
  /\ nodes # <<>>
  /\ Cardinality(ThemeWords) >= 3
  /\ CurrentSynthesis[Len(CurrentSynthesis)][1] = "Next: Bridge your standalone ideas to your hubs"

\* every node that has a target sits at it
AllAtTargets ==
  \A k \in 1..Len(nodes) :
    nodes[k].hasTarget => (nodes[k].x = nodes[k].targetX /\ nodes[k].y = nodes[k].targetY)

\* a coordinate moved by a tenth of what remained, to the 1/4 pixel
MovedByTenth(from, to, target) ==
  /\ 10 * (to - from) - (target - from) \in -9..9
  /\ (target >= from) => (from <= to /\ to <= target)
  /\ (target <= from) => (target <= to /\ to <= from)

\* C25: after a successful organize, with no input change and no reset,
\* every node that has a target moves on each tick by 10% of the remaining
\* distance while that exceeds one pixel and snaps to the target otherwise;
\* so every such node eventually sits at (targetX, targetY) and stays there
\* on all later ticks.
C25_NodesReachTargetsAndStay ==
  /\ [][(isOrganized /\ Len(nodes') = Len(nodes) /\ nodes' # nodes) =>
          \A k \in 1..Len(nodes) :
            nodes[k].hasTarget =>
              LET dx == nodes[k].targetX - nodes[k].x
                  dy == nodes[k].targetY - nodes[k].y
              IN IF dx * dx + dy * dy > 16
                   THEN /\ MovedByTenth(nodes[k].x, nodes'[k].x, nodes[k].targetX)
                        /\ MovedByTenth(nodes[k].y, nodes'[k].y, nodes[k].targetY)
                   ELSE nodes'[k].x = nodes[k].targetX /\ nodes'[k].y = nodes[k].targetY]_vars
  /\ (isOrganized ~> AllAtTargets)
  /\ [][(isOrganized /\ AllAtTargets) => AllAtTargets']_vars

\* organized nodes, one of them first far from its target, all at their
\* targets after the frames in between
C25_Witness ==
  /\ isOrganized
  /\ Len(nodes) >= 2
  /\ AllAtTargets
  /\ \E k \in 1..Len(nodes) :
       nodes[k].hasTarget /\ nodes[k].x # RandomPosition("near", k)[1]

\* C26: a failed organize request leaves the node set, the clusters, the
\* strong connections and the organized flag as they were and clears the
\* busy flag; after any organize request settles, isOrganizing is false.
C26_FailedOrganizeChangesNothing ==
  /\ [][(consoleErrors' # consoleErrors) =>
          /\ inFlight # <<>> /\ inFlight' = <<>>
          /\ nodes' = nodes
          /\ clusters' = clusters
          /\ strongConnections' = strongConnections
          /\ isOrganized' = isOrganized
          /\ isOrganizing' = FALSE]_vars
  /\ [][(inFlight # <<>> /\ inFlight' = <<>>) => isOrganizing' = FALSE]_vars
  /\ [](inFlight = <<>> => ~isOrganizing)

\* a request has failed: the error is logged, the view is neither busy nor
\* organized, and its nodes are as the frames left them
C26_Witness ==
  /\ consoleErrors > 0
  /\ ~isOrganizing
  /\ ~isOrganized
  /\ inFlight = <<>>
  /\ \E k \in 1..Len(nodes) : nodes[k].touchCount > 0

\* C27: every manual group's parentId is the id of a node of the node set,
\* so that the children a collapsed group hides have their parent bubble.
C27_GroupParentInNodeSet ==
  \A g \in 1..Len(manualGroups) :
    \E k \in 1..Len(nodes) : nodes[k].id = manualGroups[g].parentId

\* the ids of the call whose embedding in the result is not empty
EmbeddedIds ==
  {id \in DOMAIN embeddingsResult.value.embeddings :
     Len(embeddingsResult.value.embeddings[id]) > 0}

\* how many times the thoughtIds of the returned clusters hold an id
ClusterOccurrences(id) ==
  SumSeq([c \in 1..Len(embeddingsResult.value.clusters) |->
    Cardinality({m \in 1..Len(embeddingsResult.value.clusters[c].thoughtIds) :
                   embeddingsResult.value.clusters[c].thoughtIds[m] = id})])

\* C28: in the result of getThoughtEmbeddings every thought with a non-empty
\* embedding is in the thoughtIds of exactly one returned cluster, the
\* "Unclustered" group included.
C28_EveryEmbeddedThoughtInOneCluster ==
  (embeddingsResult.called /\ "error" \notin DOMAIN embeddingsResult.value) =>
    \A id \in EmbeddedIds : ClusterOccurrences(id) = 1

\* the document of the collection with an _id, as a set of at most one
DocumentsWithId(docs, id) == {docs[k] : k \in {j \in 1..Len(docs) : docs[j].id = id}}

\* C29: a document's userId is the session user of the request that created
\* it and never changes, and no request reads, modifies or deletes a
\* document whose userId is another user.
C29_OwnerFixedAtCreation ==
  /\ [][\A id \in 1..MaxDocuments :
          \A before \in DocumentsWithId(documents, id),
             after \in DocumentsWithId(documents', id) :
            after.userId = before.userId]_vars
  /\ [][(served' # served /\ served'.method = "POST /" /\ served'.status = 201) =>
          \A id \in served'.touched :
            \A doc \in DocumentsWithId(documents', id) : doc.userId = served'.user]_vars
  /\ [][(served' # served) =>
          \A id \in served'.touched :
            \A doc \in DocumentsWithId(documents, id) : doc.userId = served'.user]_vars

\* C30: however concurrent GET /api/documents requests of a user interleave,
\* ensureTodayDocument leaves at most one document of that user created
\* today.
C30_OneTodayDocumentPerUser ==
  \A user \in Users : Cardinality(CreatedToday(documents, user)) <= 1

====
